---------------------------- MODULE Spec2Model ----------------------------
(***************************************************************************)
(* SmartDoor: the PC-side door controller (services/door_controller.py)    *)
(* with the serial transport it owns (services/serial_service.py) and the  *)
(* credential store it reads (services/passcode_service.py).               *)
(*                                                                         *)
(* Threads: the transport's reader thread (reads a line, dispatches it     *)
(* through DoorController._handle_rx), one threading.Timer thread per      *)
(* armed auto-close timer, and the UI thread (buttons, settings, exit).    *)
(*                                                                         *)
(* A line is a sequence of words (the text split at blanks, ":" and ","    *)
(* being words of their own); startswith / in are computed on words.       *)
(***************************************************************************)
EXTENDS Integers, Sequences, FiniteSets, TLC

\* ------------------------------------------------------------------ bounds
MaxLines  == 2      \* lines the reader thread reads in one run
MaxTimers == 2      \* threading.Timer objects created in one run
MaxApi    == 1      \* commands the UI sends in one run
MaxGuests == 1      \* guest credentials created in one run
MaxListeners == 2   \* callbacks registered with add_listener in one run
MaxHits == 1        \* matches the recognition thread arms in one run
MaxOps == 1         \* provisioning operations started in one run
MaxClock == 5       \* seconds the clock advances in one run
MaxTicks == 2       \* ticks of the recognition thread that find _paused clear
MaxFaults == 1      \* exceptions the stages of _handle_rx raise in one run
MaxBytes == 4       \* bytes the device delivers in one run
MaxQueued == 1      \* lines ESPFingerprint._lines holds (200 in the source)

\* ------------------------------------------------------------- vocabulary
NoLine == <<>>

\* 4-digit keypad codes (passcode_service._validate_numeric_code): what the
\* keypad sends and what the main credential can be set to
Codes == {"1111", "2222"}

\* the codes guest credentials are created with: the main credential can hold
\* the same code as a guest ("1111") or another one
GuestCodes == {"1111"}

Lines ==
  { <<"Inform", "passcode", "1111">>,
    <<"Inform", "passcode", ":", "1111">>,
    <<"Inform", "passcode", "2222">>,
    <<"Inform", "passcode">>,
    <<"Inform", "finger", "found", ",", "ID", ":", "7">>,
    <<"Inform", "finger", "not", "found">>,
    <<"Inform", "door", "opening", "manual">>,
    <<"Inform", "door", "opened">>,
    <<"Inform", "door", "closing">>,
    <<"Inform", "door", "closed">>,
    <<"door", "closed">>,
    <<"Key", "5">> }

\* store / settings faults one dispatch can meet (each is a raised exception)
Faults == {"none", "settings", "main", "list", "guest"}

\* seconds the UI or a caller can hand to set_hold_time
HoldInputs == {-1, 0, 5}

LogKinds == {"passcode_granted", "passcode_denied", "passcode_blocked",
             "fingerprint_granted", "fingerprint_denied", "face_granted"}

Commands == {"open manual", "close", "open passcode", "enroll",
             "delete 1", "delete all", "library"}

\* ------------------------------------------------------------------ state
VARIABLES
  available,      \* SerialService.available
  port,           \* SerialService.ser: "none" | "open" | "closed"
  running,        \* SerialService._running
  rx,             \* reader thread: "idle" | "read" | "dispatch" | "stuck" | "done"
  cur,            \* the line being dispatched, NoLine between two lines
  flt,            \* the fault the store or the settings meet during this dispatch
  nLines,         \* lines read so far
  hold_time_sec,  \* DoorController._hold_time_sec
  timer,          \* DoorController._auto_close_timer: 0 (None) or a timer id
  timers,         \* the threading.Timer objects created so far
  nTimers,        \* how many were created
  tx,             \* commands written to the device, by text
  nApi,           \* commands the UI asked for
  logc,           \* access_log rows requested through log_access, by kind
  passcode_enabled, \* settings.passcode_enabled
  main,           \* the main credential's plain code, "" when there is none
  guests,         \* the guest rows of table passcodes, by id
  nGuests,        \* guest rows created so far
  grants,         \* per guest id: passcode attempts that matched this row
  att,            \* what the last passcode attempt did (NoAtt before the first)
  door_state,     \* HomeTab._door_state
  door_busy,      \* HomeTab._door_busy
  cycle,          \* an "Inform door opening" line was dispatched, no "Inform door closed" line since
  paused,         \* RecognitionDaemon._paused
  pending,        \* RecognitionDaemon._pending_name is not None
  rtick,          \* recognition thread: "sleep" | "tick" (past the test of _paused)
  hits,           \* calls of on_hit so far
  on_event,       \* DoorController._on_event is set
  listeners,      \* DoorController._listeners
  stage,          \* _handle_rx: 0 logic, 1 primary callback, 2 + i listener i + 1 of snap
  snap,           \* list(self._listeners) as the listener loop took it
  trace,          \* the stages run so far: line number, stage, raised or returned
  user_cb,        \* ESPFingerprint._user_cb: "absent" | "returns" | "raises"
  q,              \* ESPFingerprint._lines
  op,             \* the provisioning operation in flight, or the last one
  echo,           \* lines handed to the observer so far
  inbuf,          \* bytes the device delivered that the reader has not read yet
  buf,            \* _rx_loop's buf
  raw,            \* the bytes read since the last newline, as they came
  got,            \* the complete lines read so far, as they came
  out,            \* the calls of on_message so far: line number, text, raised
  nBytes,         \* bytes the device delivered so far
  now,            \* time.time(), in seconds
  stop,           \* RecognitionDaemon._stop is set
  upc,            \* the thread that calls pause() / resume(): "idle", or where it
                  \* stands in pause(), resume() or _apply_camera_index
  pending_name,   \* RecognitionDaemon._pending_name, "none" for None
  pending_dist,   \* RecognitionDaemon._pending_dist
  pending_since,  \* RecognitionDaemon._pending_since
  last_match_ts,  \* RecognitionDaemon._last_match_ts
  last_deny_ts,   \* RecognitionDaemon._last_deny_ts
  loc,            \* run's locals name, dist, now after the match, and the exception
                  \* this tick met
  status,         \* the text of the last on_status call
  armed,          \* the last match armed, and the pause() / resume() calls since
  hitlog,         \* the calls of on_hit so far
  nTicks,         \* ticks begun so far
  nm,             \* the time of the last "no match" status, 0 when there was none
                  \* since the deny cooldown was last reset
  visual          \* the argument of the last on_visual call that returned:
                  \* "none" for None, "box" for an overlay

vars == << available, port, running, rx, cur, flt, nLines, hold_time_sec, timer,
           timers, nTimers, tx, nApi, logc, passcode_enabled, main, guests,
           nGuests, grants, att, door_state, door_busy, cycle, paused, pending,
           rtick, hits, on_event, listeners, stage, snap, trace, user_cb, q, op,
           echo, inbuf, buf, raw, got, out, nBytes, now, stop, upc, pending_name,
           pending_dist, pending_since, last_match_ts, last_deny_ts, loc, status,
           armed, hitlog, nTicks, nm, visual >>

TimerIds == 1..MaxTimers
ListenerIds == 1..MaxListeners
GuestIds == 1..MaxGuests

\* ----------------------------------------------------------- text helpers
StartsWith(text, pre) ==
  /\ Len(text) >= Len(pre)
  /\ SubSeq(text, 1, Len(pre)) = pre

Contains(text, pat) ==
  \E i \in 1..(Len(text) - Len(pat) + 1) : SubSeq(text, i, i + Len(pat) - 1) = pat

\* PasscodeOf without the test for a leading ":"
PasscodeOf_KeepsColon(text) == SubSeq(text, 3, Len(text))

\* the code a keypad line carries: what follows "Inform passcode", an
\* optional leading ":" dropped
PasscodeOf(text) ==
  LET msg == SubSeq(text, 3, Len(text))
  IN  IF msg # <<>> /\ Head(msg) = ":" THEN Tail(msg) ELSE msg


\* the branch of _process_line_for_logic a line takes
Branch(text) ==
  IF StartsWith(text, <<"Inform", "passcode">>) THEN "passcode"
  ELSE IF StartsWith(text, <<"Inform", "finger", "found">>) THEN "finger_found"
  ELSE IF Contains(text, <<"Inform", "finger", "not", "found">>) THEN "finger_not_found"
  ELSE IF Contains(text, <<"Inform", "door", "opened">>) THEN "door_opened"
  ELSE IF \/ Contains(text, <<"Inform", "door", "closing">>)
          \/ Contains(text, <<"Inform", "door", "closed">>) THEN "door_closing"
  ELSE "other"

\* ---------------------------------------------------------------- sending
\* SerialService.send: ser.write reaches the device only on an open port (on a
\* closed one it raises, and the exception is swallowed)
Written == available /\ port = "open"

\* _send with the test of the transport inverted
Send_GuardInverted(t, cmd) == IF Written THEN t ELSE [t EXCEPT ![cmd] = @ + 1]

\* DoorController._send
Send(t, cmd) == IF Written THEN [t EXCEPT ![cmd] = @ + 1] ELSE t

\* -------------------------------------------------------------- the timer
NewTimer == [pc |-> "new", finished |-> FALSE, fired |-> FALSE, sends |-> 0,
             cancelAt |-> "none", cancelBy |-> "none"]

\* threading.Timer.cancel(): sets the finished event. cancelAt / cancelBy keep
\* where the timer thread stood at the first cancel, and who cancelled.
TimerCancel(ts, k, by) ==
  [ts EXCEPT ![k] = [@ EXCEPT !.finished = TRUE,
                              !.cancelAt = IF @ = "none" THEN ts[k].pc ELSE @,
                              !.cancelBy = IF @ = "none" THEN by ELSE @]]

\* started, and neither fired nor cancelled
Outstanding(k) == timers[k].pc \in {"wait", "call"} /\ ~timers[k].finished

\* _cancel_auto_close that drops the handle and leaves the timer running
CancelAutoClose_DropsHandle(d, by) == [d EXCEPT !.timer = 0]

\* DoorController._cancel_auto_close, on d = [timer, timers, nTimers]
CancelAutoClose(d, by) ==
  IF d.timer # 0
  THEN [d EXCEPT !.timers = TimerCancel(d.timers, d.timer, by), !.timer = 0]
  ELSE d

\* DoorController._schedule_auto_close
ScheduleAutoClose(d) ==
  IF hold_time_sec <= 0 THEN d
  ELSE LET c == CancelAutoClose(d, "rearm")
           k == c.nTimers + 1
       IN  [timer   |-> k,
            timers  |-> [c.timers EXCEPT ![k].pc = "wait"],
            nTimers |-> k]

\* ------------------------------------------------- the credential store
NoGuest == [code |-> "", one_time |-> FALSE, used |-> FALSE, state |-> "absent"]

\* passcode_service.list_active_guest_codes: the ids of the unused, unexpired
\* guest rows, in store order
RECURSIVE ActiveFrom(_)
ActiveFrom(i) ==
  IF i > MaxGuests THEN <<>>
  ELSE IF guests[i].state = "active" /\ ~guests[i].used
       THEN <<i>> \o ActiveFrom(i + 1)
       ELSE ActiveFrom(i + 1)

\* list_active_guest_codes without the valid_until test
ListActiveGuestCodes_WithExpired ==
  LET RECURSIVE From(_)
      From(i) == IF i > MaxGuests THEN <<>>
                 ELSE IF guests[i].state # "absent" /\ ~guests[i].used
                      THEN <<i>> \o From(i + 1)
                      ELSE From(i + 1)
  IN  From(1)

ListActiveGuestCodes == ActiveFrom(1)

\* passcode_service.reveal_main_passcode; a raise leaves plain_main None
RevealMain(f) == IF f = "main" THEN "" ELSE main

\* passcode_service.reveal_guest_passcode; a raise leaves plain_guest None
RevealGuest(id, f) == IF f = "guest" THEN "" ELSE guests[id].code

\* the guest loop of _handle_passcode_from_keypad: first match wins
RECURSIVE MatchGuests(_, _, _, _)
MatchGuests(rows, code, f, n) ==
  IF rows = <<>> THEN [guest |-> 0, reads |-> n]
  ELSE LET plain_guest == RevealGuest(Head(rows), f)
       IN  IF plain_guest # "" /\ code = <<plain_guest>>
           THEN [guest |-> Head(rows), reads |-> n + 1]
           ELSE MatchGuests(Tail(rows), code, f, n + 1)

\* step 2 with the guest rows compared before the main credential
Verify_GuestsFirst(code, f) ==
  IF f = "list"
  THEN [ok |-> FALSE, guest |-> 0, reads |-> 1, enumerated |-> TRUE]
  ELSE LET m == MatchGuests(ListActiveGuestCodes, code, f, 1)
           plain_main == RevealMain(f)
       IN  IF m.guest # 0
           THEN [ok |-> TRUE, guest |-> m.guest, reads |-> m.reads, enumerated |-> TRUE]
           ELSE [ok |-> plain_main # "" /\ code = <<plain_main>>, guest |-> 0,
                 reads |-> m.reads + 1, enumerated |-> TRUE]

\* step 2 of _handle_passcode_from_keypad: main first, then the guests.
\* reads counts the calls made on the credential store.
Verify(code, f) ==
  LET plain_main == RevealMain(f)
  IN  IF plain_main # "" /\ code = <<plain_main>>
      THEN [ok |-> TRUE, guest |-> 0, reads |-> 1, enumerated |-> FALSE]
      ELSE IF f = "list"
           THEN [ok |-> FALSE, guest |-> 0, reads |-> 2, enumerated |-> TRUE]
           ELSE LET m == MatchGuests(ListActiveGuestCodes, code, f, 2)
                IN  [ok |-> m.guest # 0, guest |-> m.guest,
                     reads |-> m.reads, enumerated |-> TRUE]

\* step 1 with the toggle never read
PassEnabled_IgnoresToggle(f) == TRUE

\* step 1: bool(s.get("passcode_enabled", 1)), True when the read raises
PassEnabled(f) == IF f = "settings" THEN TRUE ELSE passcode_enabled

NoAtt == [code |-> <<>>, enabled |-> TRUE, reads |-> 0, enumerated |-> FALSE,
          result |-> "none", guest |-> 0]

\* DoorController._handle_passcode_from_keypad: the outcome of one attempt
PasscodeOutcome(code, f) ==
  IF ~PassEnabled(f)
  THEN [code |-> code, enabled |-> FALSE, reads |-> 0, enumerated |-> FALSE,
        result |-> "blocked", guest |-> 0]
  ELSE LET v == Verify(code, f)
       IN  [code |-> code, enabled |-> TRUE, reads |-> v.reads, enumerated |-> v.enumerated,
            result |-> IF v.ok THEN "granted" ELSE "denied", guest |-> v.guest]

\* ------------------------------------- ESPFingerprint, the command channel
\* ESPFingerprint owns a SerialService of its own: in the channel
\* specification available, port, running, rx, cur, nLines and tx are that
\* transport's, and its on_message is _rx_line.
OpNames == {"enroll", "delete", "delete_all", "library"}

\* the lines the channel specification reads
ChanLines ==
  { <<"Inform", "enroll", "complete", ",", "ID", ":", "3">>,
    <<"Inform", "Delete", "Success">>,
    <<"Error", "delete", "failed">>,
    <<"Inform", "library", "first", "empty", "slot", ":", "x">>,
    <<"Key", "5">> }

\* str.lower, word by word
LowerWord(w) ==
  CASE w = "Inform"  -> "inform"
    [] w = "Delete"  -> "delete"
    [] w = "Success" -> "success"
    [] w = "Error"   -> "error"
    [] w = "ID"      -> "id"
    [] w = "Key"     -> "key"
    [] OTHER         -> w

Lower(text) == [i \in 1..Len(text) |-> LowerWord(text[i])]

\* int(line.split(":")[-1].strip()) inside try/except: the number after the
\* last ":", <<>> (None) when what follows is not a number
ValueOf(text) ==
  LET w == text[Len(text)]
  IN  IF w = "3" THEN <<3>> ELSE IF w = "4" THEN <<4>> ELSE <<>>

\* the command an operation sends (delete is called with id 1)
CmdOf(name) ==
  CASE name = "enroll"     -> "enroll"
    [] name = "delete"     -> "delete 1"
    [] name = "delete_all" -> "delete all"
    [] name = "library"    -> "library"

\* the prefix that makes a line the operation's success
SuccessPrefix(name) ==
  CASE name = "enroll"  -> <<"inform", "enroll", "complete", ",", "id", ":">>
    [] name = "library" -> <<"inform", "library", "first", "empty", "slot", ":">>
    [] OTHER            -> <<"inform", "delete", "success">>

\* the prefix that makes a line the operation's failure
FailurePrefix(name) ==
  CASE name = "enroll"  -> <<"error", "enroll">>
    [] name = "library" -> <<"error", "library">>
    [] OTHER            -> <<"error", "delete">>

\* what an operation answers on success
SuccessMsg(name) ==
  CASE name = "enroll"     -> <<"enroll", "complete">>
    [] name = "delete"     -> <<"deleted">>
    [] name = "delete_all" -> <<"all", "deleted">>
    [] name = "library"    -> <<"ok">>

\* what the body of the polling loop makes of one line: go on, or return
Outcome(name, text) ==
  IF StartsWith(Lower(text), SuccessPrefix(name))
  THEN [done |-> TRUE, matched |-> TRUE, ok |-> TRUE,
        value |-> IF name \in {"enroll", "library"} THEN ValueOf(text) ELSE <<>>,
        msg |-> SuccessMsg(name)]
  ELSE IF StartsWith(Lower(text), FailurePrefix(name))
       THEN [done |-> TRUE, matched |-> TRUE, ok |-> FALSE, value |-> <<>>, msg |-> text]
       ELSE [done |-> FALSE, matched |-> FALSE, ok |-> FALSE, value |-> <<>>,
             msg |-> <<"timeout">>]

\* is_connected that takes the transport as always there
IsConnected_Always == TRUE

\* ESPFingerprint.is_connected
IsConnected == available

\* ESPFingerprint._send
EspSend(t, cmd) == IF available /\ Written THEN [t EXCEPT ![cmd] = @ + 1] ELSE t

\* no provisioning operation was started yet. n counts the operations
\* started; matched tells that the last line the operation popped satisfies
\* its success or failure predicate, stale that this line was queued before
\* the operation sent its command.
NoOp == [name |-> "none", pc |-> "none", n |-> 0, ok |-> FALSE, value |-> <<>>,
         msg |-> <<>>, stale |-> FALSE, matched |-> FALSE]

\* an operation returns
Returned(o, ok, value, msg, matched, stale) ==
  [o EXCEPT !.pc = "returned", !.ok = ok, !.value = value, !.msg = msg,
            !.matched = matched, !.stale = stale]

\* ------------------------------------------- RecognitionDaemon, in seconds
\* time.time() when the daemon starts: seconds since 1970, far above every
\* cooldown
Epoch == 100

\* match_hold_ms, matched_cooldown_ms, denied_log_cooldown_ms
MatchHold == 2
MatchCd == 2
DenyCd == 5

\* what recognize_with_box returns: no face region, an unknown face, a known
\* face with its distance
Matches ==
  { [matched |-> FALSE, name |-> "none", dist |-> 0, box |-> FALSE],
    [matched |-> FALSE, name |-> "none", dist |-> 0, box |-> TRUE],
    [matched |-> TRUE,  name |-> "ann",  dist |-> 1, box |-> TRUE],
    [matched |-> TRUE,  name |-> "bob",  dist |-> 2, box |-> TRUE] }

\* what recognize_with_box returns on a tick with no pending match. The
\* names are interchangeable, so the one that is armed is called "ann"; a
\* tick that holds a pending match may see the other name
IdleMatches == {m \in Matches : m.name # "bob"}

\* no match decided and not yet armed
NoLoc == [name |-> "none", dist |-> 0, now |-> 0, fault |-> "none", enabled |-> TRUE]

\* the locals of run() after an exception of the frame source, of the
\* matcher or of the overlay callback
Raised(e) == [NoLoc EXCEPT !.fault = e]

\* no match armed yet. n numbers the matches armed; p: pause() was called
\* while this match was pending; r: a resume() returned after that pause()
NoArm == [n |-> 0, name |-> "none", dist |-> 0, since |-> 0, p |-> FALSE, r |-> FALSE]

\* -------------------------------------------------------------------- Init
\* the state after DoorController.__init__: the transport opened its port (and
\* started the reader thread) or fell back to disconnected mode
InitBase ==
  /\ available \in BOOLEAN
  /\ port = IF available THEN "open" ELSE "none"
  /\ running = available
  /\ rx = "idle"
  /\ cur = NoLine
  /\ flt = "none"
  /\ nLines = 0
  /\ hold_time_sec = 5
  /\ timer = 0
  /\ timers = [k \in TimerIds |-> NewTimer]
  /\ nTimers = 0
  /\ tx = [c \in Commands |-> 0]
  /\ nApi = 0
  /\ logc = [k \in LogKinds |-> 0]
  /\ passcode_enabled = TRUE
  /\ main = ""
  /\ guests = [i \in GuestIds |-> NoGuest]
  /\ nGuests = 0
  /\ grants = [i \in GuestIds |-> 0]
  /\ att = NoAtt
  /\ door_state = "closed"
  /\ door_busy = FALSE
  /\ cycle = FALSE
  /\ paused = FALSE
  /\ pending = FALSE
  /\ rtick = "sleep"
  /\ hits = 0
  /\ listeners = <<>>
  /\ stage = 0
  /\ snap = <<>>
  /\ trace = <<>>
  /\ q = <<>>
  /\ op = NoOp
  /\ echo = 0
  /\ inbuf = <<>>
  /\ buf = <<>>
  /\ raw = <<>>
  /\ got = <<>>
  /\ out = <<>>
  /\ nBytes = 0
  /\ now = Epoch
  /\ stop = FALSE
  /\ upc = "idle"
  /\ pending_name = "none"
  /\ pending_dist = 0
  /\ pending_since = 0
  /\ last_match_ts = 0
  /\ last_deny_ts = 0
  /\ loc = NoLoc
  /\ status = "ready"
  /\ armed = NoArm
  /\ hitlog = <<>>
  /\ nTicks = 0
  /\ nm = 0
  /\ visual = "none"

\* the application's controller: App builds DoorController() with no primary
\* callback, and no ESPFingerprint observer
Init ==
  /\ InitBase
  /\ on_event = FALSE
  /\ user_cb = "absent"

ctlVars   == << hold_time_sec >>
timerVars == << timer, timers, nTimers >>
storeVars == << passcode_enabled, main, guests, nGuests >>
linkVars  == << available, port, running >>
homeVars  == << door_state, door_busy, cycle >>
recogVars == << paused, pending, rtick, hits >>
fanVars   == << on_event, listeners, stage, snap, trace >>
chanVars  == << user_cb, q, op, echo >>
lineVars  == << inbuf, buf, raw, got, out, nBytes >>
dmnVars   == << now, stop, upc, pending_name, pending_dist, pending_since,
                last_match_ts, last_deny_ts, loc, status, armed, hitlog, nTicks,
                nm, visual >>

\* ------------------------------------------- the home tab, a listener
\* RecognitionDaemon.pause / resume, on r = [paused, pending]
Pause(r) == [paused |-> TRUE, pending |-> FALSE]

Resume(r) == [paused |-> FALSE, pending |-> FALSE]

\* _on_serial_line looking for "door opening" ... without the "Inform"
HomeBranch_NoInform(text) ==
  IF Contains(text, <<"door", "opening">>) THEN "opening"
  ELSE IF Contains(text, <<"door", "opened">>) THEN "open_hold"
  ELSE IF Contains(text, <<"door", "closing">>) THEN "closing"
  ELSE IF Contains(text, <<"door", "closed">>) THEN "closed"
  ELSE "none"

\* the branch of HomeTab._on_serial_line that sets the door state, "none"
\* when the line is none of the four door lines
HomeBranch(text) ==
  IF Contains(text, <<"Inform", "door", "opening">>) THEN "opening"
  ELSE IF Contains(text, <<"Inform", "door", "opened">>) THEN "open_hold"
  ELSE IF Contains(text, <<"Inform", "door", "closing">>) THEN "closing"
  ELSE IF Contains(text, <<"Inform", "door", "closed">>) THEN "closed"
  ELSE "none"

\* HomeTab._on_serial_line, the listener the home tab registers at start;
\* _handle_rx calls it last, on the reader thread
OnSerialLine(text) ==
  LET b == HomeBranch(text)
      r == [paused |-> paused, pending |-> pending]
      n == IF b = "opening" THEN Pause(r) ELSE IF b = "closed" THEN Resume(r) ELSE r
  IN  /\ door_state' = IF b = "none" THEN door_state ELSE b
      /\ door_busy' = IF b = "opening" THEN TRUE ELSE IF b = "closed" THEN FALSE
                      ELSE door_busy
      /\ paused' = n.paused
      /\ pending' = n.pending
      /\ cycle' = IF b = "opening" THEN TRUE ELSE IF b = "closed" THEN FALSE ELSE cycle
      /\ UNCHANGED << rtick, hits >>

\* ------------------------------------------------------ the reader thread
\* SerialService._rx_loop: the loop test passed and a complete, non-empty line
\* was read; on_message(line) comes next
RxRead(line, f) ==
  /\ running /\ port = "open"
  /\ rx = "idle"
  /\ nLines < MaxLines
  /\ Branch(line) = "door_opened" => nTimers < MaxTimers
  /\ rx' = "dispatch"
  /\ cur' = line
  /\ flt' = IF Branch(line) = "passcode" THEN f ELSE "none"
  /\ nLines' = nLines + 1
  /\ UNCHANGED << linkVars, ctlVars, timerVars, storeVars, tx, nApi, logc, grants, att, homeVars, recogVars, fanVars, chanVars, lineVars, dmnVars >>

\* _handle_rx on "Inform passcode ...": _handle_passcode_from_keypad
DispatchPasscode ==
  /\ rx = "dispatch" /\ Branch(cur) = "passcode"
  /\ rx' = "idle" /\ cur' = NoLine /\ flt' = "none"
  /\ OnSerialLine(cur)
  /\ LET code == PasscodeOf(cur)
         o    == PasscodeOutcome(code, flt)
     IN  IF code = <<>>
         THEN UNCHANGED << tx, logc, grants, att >>
         ELSE /\ tx' = IF o.result = "granted" THEN Send(tx, "open passcode") ELSE tx
              /\ logc' = [logc EXCEPT !["passcode_" \o o.result] = @ + 1]
              /\ grants' = IF o.guest # 0 THEN [grants EXCEPT ![o.guest] = @ + 1]
                           ELSE grants
              /\ att' = o
  /\ UNCHANGED << linkVars, nLines, ctlVars, timerVars, storeVars, nApi, fanVars, chanVars, lineVars, dmnVars >>

\* the "finger found" branch opening the door from the PC as well
DispatchFingerFound_Opens ==
  /\ rx = "dispatch" /\ Branch(cur) = "finger_found"
  /\ rx' = "idle" /\ cur' = NoLine /\ flt' = "none"
  /\ OnSerialLine(cur)
  /\ logc' = [logc EXCEPT !["fingerprint_granted"] = @ + 1]
  /\ tx' = Send(tx, "open manual")
  /\ UNCHANGED << linkVars, nLines, ctlVars, timerVars, storeVars, nApi, grants, att, fanVars, chanVars, lineVars, dmnVars >>

\* _handle_rx on "Inform finger found...": _log_fingerprint(granted=True)
DispatchFingerFound ==
  /\ rx = "dispatch" /\ Branch(cur) = "finger_found"
  /\ rx' = "idle" /\ cur' = NoLine /\ flt' = "none"
  /\ OnSerialLine(cur)
  /\ logc' = [logc EXCEPT !["fingerprint_granted"] = @ + 1]
  /\ UNCHANGED << linkVars, nLines, ctlVars, timerVars, storeVars, tx, nApi, grants, att, fanVars, chanVars, lineVars, dmnVars >>

\* the "finger not found" branch returning before _log_fingerprint
DispatchFingerNotFound_Unlogged ==
  /\ rx = "dispatch" /\ Branch(cur) = "finger_not_found"
  /\ rx' = "idle" /\ cur' = NoLine /\ flt' = "none"
  /\ OnSerialLine(cur)
  /\ UNCHANGED << linkVars, nLines, ctlVars, timerVars, storeVars, tx, nApi, logc, grants, att, fanVars, chanVars, lineVars, dmnVars >>

\* _handle_rx on "...Inform finger not found...": _log_fingerprint(granted=False)
DispatchFingerNotFound ==
  /\ rx = "dispatch" /\ Branch(cur) = "finger_not_found"
  /\ rx' = "idle" /\ cur' = NoLine /\ flt' = "none"
  /\ OnSerialLine(cur)
  /\ logc' = [logc EXCEPT !["fingerprint_denied"] = @ + 1]
  /\ UNCHANGED << linkVars, nLines, ctlVars, timerVars, storeVars, tx, nApi, grants, att, fanVars, chanVars, lineVars, dmnVars >>

\* _handle_rx on "...Inform door opened...": _schedule_auto_close
DispatchDoorOpened ==
  /\ rx = "dispatch" /\ Branch(cur) = "door_opened"
  /\ rx' = "idle" /\ cur' = NoLine /\ flt' = "none"
  /\ OnSerialLine(cur)
  /\ LET d == ScheduleAutoClose([timer |-> timer, timers |-> timers, nTimers |-> nTimers])
     IN  /\ timer' = d.timer
         /\ timers' = d.timers
         /\ nTimers' = d.nTimers
  /\ UNCHANGED << linkVars, nLines, ctlVars, storeVars, tx, nApi, logc, grants, att, fanVars, chanVars, lineVars, dmnVars >>

\* _handle_rx on "...Inform door closing/closed...": _cancel_auto_close
DispatchDoorClosing ==
  /\ rx = "dispatch" /\ Branch(cur) = "door_closing"
  /\ rx' = "idle" /\ cur' = NoLine /\ flt' = "none"
  /\ OnSerialLine(cur)
  /\ LET d == CancelAutoClose([timer |-> timer, timers |-> timers, nTimers |-> nTimers], "line")
     IN  /\ timer' = d.timer
         /\ timers' = d.timers
         /\ nTimers' = d.nTimers
  /\ UNCHANGED << linkVars, nLines, ctlVars, storeVars, tx, nApi, logc, grants, att, fanVars, chanVars, lineVars, dmnVars >>

\* _handle_rx on any other line: the internal logic does nothing
DispatchOther ==
  /\ rx = "dispatch" /\ Branch(cur) = "other"
  /\ rx' = "idle" /\ cur' = NoLine /\ flt' = "none"
  /\ OnSerialLine(cur)
  /\ UNCHANGED << linkVars, nLines, ctlVars, timerVars, storeVars, tx, nApi, logc, grants, att, fanVars, chanVars, lineVars, dmnVars >>

\* ------------------------------------- _handle_rx, one stage at a time
\* the lines the fan-out specification reads
FanLines == { <<"Inform", "door", "closed">>, <<"Key", "5">> }

\* one entry of the record of calls: which stage ran on which line (cb is the
\* listener, 0 for the other stages), whether it raised, and, for the first
\* stage, how many listeners were registered by then
Called(st, c, raised) ==
  [line |-> nLines, text |-> cur, stage |-> st, cb |-> c, raised |-> raised,
   n |-> IF st = "logic" THEN Len(listeners) ELSE 0]

\* the stage may raise: the run has faults left
MayRaise(raises) ==
  raises => Cardinality({i \in 1..Len(trace) : trace[i].raised}) < MaxFaults

\* DoorController.add_listener
AddListener(cb) ==
  /\ listeners' = IF \E i \in 1..Len(listeners) : listeners[i] = cb
                  THEN listeners ELSE Append(listeners, cb)
  /\ UNCHANGED << linkVars, rx, cur, flt, nLines, ctlVars, timerVars, storeVars, tx,
                  nApi, logc, grants, att, homeVars, recogVars, on_event, stage, snap,
                  trace, chanVars, lineVars, dmnVars >>

\* the internal logic raising through _handle_rx: the dispatch is given up
HandleLogic_Propagates(raises) ==
  /\ rx = "dispatch" /\ stage = 0
  /\ MayRaise(raises)
  /\ trace' = Append(trace, Called("logic", 0, raises))
  /\ IF raises THEN rx' = "idle" /\ cur' = NoLine /\ stage' = 0
     ELSE stage' = 1 /\ UNCHANGED << rx, cur >>
  /\ UNCHANGED << linkVars, flt, nLines, ctlVars, timerVars, storeVars, tx, nApi, logc,
                  grants, att, homeVars, recogVars, on_event, listeners, snap, chanVars, lineVars, dmnVars >>

\* _handle_rx, stage 1: _process_line_for_logic inside try/except. What the
\* logic does to the door is Dispatch*; here it returns or raises.
HandleLogic(raises) ==
  /\ rx = "dispatch" /\ stage = 0
  /\ MayRaise(raises)
  /\ trace' = Append(trace, Called("logic", 0, raises))
  /\ stage' = 1
  /\ UNCHANGED << linkVars, rx, cur, flt, nLines, ctlVars, timerVars, storeVars, tx,
                  nApi, logc, grants, att, homeVars, recogVars, on_event, listeners,
                  snap, chanVars, lineVars, dmnVars >>

\* _handle_rx, stage 2: the primary callback, if there is one, inside
\* try/except; then the listener loop copies the list
HandlePrimary(raises) ==
  /\ rx = "dispatch" /\ stage = 1
  /\ MayRaise(raises)
  /\ trace' = IF on_event THEN Append(trace, Called("primary", 0, raises)) ELSE trace
  /\ stage' = 2
  /\ snap' = listeners
  /\ UNCHANGED << linkVars, rx, cur, flt, nLines, ctlVars, timerVars, storeVars, tx,
                  nApi, logc, grants, att, homeVars, recogVars, on_event, listeners,
                  chanVars, lineVars, dmnVars >>

\* the listener loop walking the copy from its end
HandleListener_LastFirst(raises) ==
  /\ rx = "dispatch" /\ stage >= 2 /\ stage - 1 <= Len(snap)
  /\ MayRaise(raises)
  /\ trace' = Append(trace, Called("listener", snap[Len(snap) - (stage - 2)], raises))
  /\ stage' = stage + 1
  /\ UNCHANGED << linkVars, rx, cur, flt, nLines, ctlVars, timerVars, storeVars, tx,
                  nApi, logc, grants, att, homeVars, recogVars, on_event, listeners,
                  snap, chanVars, lineVars, dmnVars >>

\* _handle_rx, stage 3: the next listener of the copy, inside try/except
HandleListener(raises) ==
  /\ rx = "dispatch" /\ stage >= 2 /\ stage - 1 <= Len(snap)
  /\ MayRaise(raises)
  /\ trace' = Append(trace, Called("listener", snap[stage - 1], raises))
  /\ stage' = stage + 1
  /\ UNCHANGED << linkVars, rx, cur, flt, nLines, ctlVars, timerVars, storeVars, tx,
                  nApi, logc, grants, att, homeVars, recogVars, on_event, listeners,
                  snap, chanVars, lineVars, dmnVars >>

\* _handle_rx returns to _rx_loop: the listener loop is over
HandleReturn ==
  /\ rx = "dispatch" /\ stage >= 2 /\ stage - 1 > Len(snap)
  /\ rx' = "idle" /\ cur' = NoLine
  /\ stage' = 0 /\ snap' = <<>>
  /\ UNCHANGED << linkVars, flt, nLines, ctlVars, timerVars, storeVars, tx, nApi, logc,
                  grants, att, homeVars, recogVars, on_event, listeners, trace,
                  chanVars, lineVars, dmnVars >>

\* ------------------------------------------------------ the timer threads
\* threading.Timer.run: finished.wait(interval) timed out and is_set() read False
TimerExpire(k) ==
  /\ timers[k].pc = "wait" /\ ~timers[k].finished
  /\ timers' = [timers EXCEPT ![k].pc = "call"]
  /\ UNCHANGED << linkVars, rx, cur, flt, nLines, ctlVars, timer, nTimers, storeVars, tx, nApi, logc, grants, att, homeVars, recogVars, fanVars, chanVars, lineVars, dmnVars >>

\* threading.Timer.run: the wait ended on cancel(); the function is skipped
TimerWake(k) ==
  /\ timers[k].pc = "wait" /\ timers[k].finished
  /\ timers' = [timers EXCEPT ![k].pc = "done"]
  /\ UNCHANGED << linkVars, rx, cur, flt, nLines, ctlVars, timer, nTimers, storeVars, tx, nApi, logc, grants, att, homeVars, recogVars, fanVars, chanVars, lineVars, dmnVars >>

\* threading.Timer.run: the function runs (_task: close_door), then finished.set()
TimerFire(k) ==
  /\ timers[k].pc = "call"
  /\ tx' = Send(tx, "close")
  /\ timers' = [timers EXCEPT ![k] = [@ EXCEPT !.pc = "done", !.fired = TRUE,
                                               !.finished = TRUE,
                                               !.sends = @ + tx'["close"] - tx["close"]]]
  /\ UNCHANGED << linkVars, rx, cur, flt, nLines, ctlVars, timer, nTimers, storeVars, nApi, logc, grants, att, homeVars, recogVars, fanVars, chanVars, lineVars, dmnVars >>

\* ---------------------------------------------------------- the UI thread
\* a command that takes the door as opening once it is sent
ApiSend_Optimistic(cmd) ==
  /\ nApi < MaxApi
  /\ nApi' = nApi + 1
  /\ tx' = Send(tx, cmd)
  /\ door_state' = "opening"
  /\ UNCHANGED << linkVars, rx, cur, flt, nLines, ctlVars, timerVars, storeVars, logc,
                  grants, att, door_busy, cycle, recogVars, fanVars, chanVars, lineVars, dmnVars >>

\* DoorController.open_door / close_door / send_raw("enroll")
ApiSend(cmd) ==
  /\ nApi < MaxApi
  /\ nApi' = nApi + 1
  /\ tx' = Send(tx, cmd)
  /\ UNCHANGED << linkVars, rx, cur, flt, nLines, ctlVars, timerVars, storeVars, logc, grants, att, homeVars, recogVars, fanVars, chanVars, lineVars, dmnVars >>

OpenDoor  == ApiSend("open manual")
CloseDoor == ApiSend("close")
SendRaw   == ApiSend("enroll")

\* ------------------------------------------------- the home tab's buttons
\* HomeTab._manual_open: nothing while the door is busy; else pause the
\* recognition, open_door(), and take the door as opening
ManualOpen ==
  /\ nApi < MaxApi
  /\ nApi' = nApi + 1
  /\ IF door_busy
     THEN UNCHANGED << tx, door_state, door_busy, paused, pending >>
     ELSE LET r == Pause([paused |-> paused, pending |-> pending])
          IN  /\ paused' = r.paused
              /\ pending' = r.pending
              /\ tx' = Send(tx, "open manual")
              /\ door_state' = "opening"
              /\ door_busy' = TRUE
  /\ UNCHANGED << linkVars, rx, cur, flt, nLines, ctlVars, timerVars, storeVars, logc,
                  grants, att, cycle, rtick, hits, fanVars, chanVars, lineVars, dmnVars >>

\* HomeTab._manual_close: close_door(), the state is left to the device's lines
ManualClose ==
  /\ nApi < MaxApi
  /\ nApi' = nApi + 1
  /\ tx' = Send(tx, "close")
  /\ UNCHANGED << linkVars, rx, cur, flt, nLines, ctlVars, timerVars, storeVars, logc,
                  grants, att, homeVars, recogVars, fanVars, chanVars, lineVars, dmnVars >>

\* HomeTab._fp_enroll: send_raw("enroll")
FpEnroll ==
  /\ nApi < MaxApi
  /\ nApi' = nApi + 1
  /\ tx' = Send(tx, "enroll")
  /\ UNCHANGED << linkVars, rx, cur, flt, nLines, ctlVars, timerVars, storeVars, logc,
                  grants, att, homeVars, recogVars, fanVars, chanVars, lineVars, dmnVars >>

\* HomeTab._apply_camera_index: pause the recognition, restart the camera,
\* resume the recognition
ApplyCameraIndex ==
  /\ nApi < MaxApi
  /\ nApi' = nApi + 1
  /\ LET r == Resume(Pause([paused |-> paused, pending |-> pending]))
     IN  /\ paused' = r.paused
         /\ pending' = r.pending
  /\ UNCHANGED << linkVars, rx, cur, flt, nLines, ctlVars, timerVars, storeVars, tx,
                  logc, grants, att, homeVars, rtick, hits, fanVars, chanVars, lineVars, dmnVars >>

\* ------------------------------------------------ the recognition thread
\* RecognitionDaemon.run: a tick begins and finds _paused clear
RecogCheck ==
  /\ rtick = "sleep" /\ ~paused
  /\ rtick' = "tick"
  /\ UNCHANGED << linkVars, rx, cur, flt, nLines, ctlVars, timerVars, storeVars, tx,
                  nApi, logc, grants, att, homeVars, paused, pending, hits, fanVars,
                  chanVars, lineVars, dmnVars >>

\* the tick finds no pending match and a known face: a match is armed
RecogArm ==
  /\ rtick = "tick" /\ ~pending
  /\ hits < MaxHits
  /\ pending' = TRUE
  /\ rtick' = "sleep"
  /\ UNCHANGED << linkVars, rx, cur, flt, nLines, ctlVars, timerVars, storeVars, tx,
                  nApi, logc, grants, att, homeVars, paused, hits, fanVars, chanVars, lineVars, dmnVars >>

\* the tick finds the pending match held long enough: on_hit
\* (HomeTab._on_face_hit_once), then the daemon pauses itself
RecogFire ==
  /\ rtick = "tick" /\ pending
  /\ hits' = hits + 1
  /\ logc' = [logc EXCEPT !["face_granted"] = @ + 1]
  /\ IF ~door_busy /\ door_state = "closed"
     THEN /\ tx' = Send(tx, "open manual")
          /\ door_state' = "opening"
          /\ door_busy' = TRUE
     ELSE UNCHANGED << tx, door_state, door_busy >>
  /\ LET r == Pause([paused |-> paused, pending |-> FALSE])
     IN  /\ paused' = r.paused
         /\ pending' = r.pending
  /\ rtick' = "sleep"
  /\ UNCHANGED << linkVars, rx, cur, flt, nLines, ctlVars, timerVars, storeVars, nApi,
                  grants, att, cycle, fanVars, chanVars, lineVars, dmnVars >>

\* the tick ends with nothing armed or fired (no face, or the match is held)
RecogIdle ==
  /\ rtick = "tick"
  /\ rtick' = "sleep"
  /\ UNCHANGED << linkVars, rx, cur, flt, nLines, ctlVars, timerVars, storeVars, tx,
                  nApi, logc, grants, att, homeVars, paused, pending, hits, fanVars,
                  chanVars, lineVars, dmnVars >>

\* DoorController.set_hold_time
SetHoldTime(seconds) ==
  /\ hold_time_sec' = IF seconds > 0 THEN seconds ELSE 0
  /\ UNCHANGED << linkVars, rx, cur, flt, nLines, timerVars, storeVars, tx, nApi, logc, grants, att, homeVars, recogVars, fanVars, chanVars, lineVars, dmnVars >>

\* DoorController.shutdown: cancel the timer the handle names, close the transport
Shutdown ==
  /\ timers' = IF timer # 0 THEN TimerCancel(timers, timer, "shutdown") ELSE timers
  /\ running' = FALSE
  /\ port' = IF port = "open" THEN "closed" ELSE port
  /\ UNCHANGED << available, rx, cur, flt, nLines, ctlVars, timer, nTimers, storeVars, tx, nApi, logc, grants, att, homeVars, recogVars, fanVars, chanVars, lineVars, dmnVars >>

\* settings_service.set_toggle("passcode_enabled", b)
SetToggle(b) ==
  /\ passcode_enabled' = b
  /\ UNCHANGED << linkVars, rx, cur, flt, nLines, ctlVars, timerVars, main, guests, nGuests, tx, nApi, logc, grants, att, homeVars, recogVars, fanVars, chanVars, lineVars, dmnVars >>

\* passcode_service.set_main_passcode
SetMainPasscode(c) ==
  /\ main' = c
  /\ UNCHANGED << linkVars, rx, cur, flt, nLines, ctlVars, timerVars, passcode_enabled, guests, nGuests, tx, nApi, logc, grants, att, homeVars, recogVars, fanVars, chanVars, lineVars, dmnVars >>

\* passcode_service.create_temp_passcode / create_one_time_passcode
CreateGuest(c, one_time) ==
  /\ nGuests < MaxGuests
  /\ nGuests' = nGuests + 1
  /\ guests' = [guests EXCEPT ![nGuests + 1] =
                  [code |-> c, one_time |-> one_time, used |-> FALSE, state |-> "active"]]
  /\ UNCHANGED << linkVars, rx, cur, flt, nLines, ctlVars, timerVars, passcode_enabled, main, tx, nApi, logc, grants, att, homeVars, recogVars, fanVars, chanVars, lineVars, dmnVars >>

\* time passes valid_until of a guest row
ExpireGuest(i) ==
  /\ guests[i].state = "active"
  /\ guests' = [guests EXCEPT ![i].state = "expired"]
  /\ UNCHANGED << linkVars, rx, cur, flt, nLines, ctlVars, timerVars, passcode_enabled, main, nGuests, tx, nApi, logc, grants, att, homeVars, recogVars, fanVars, chanVars, lineVars, dmnVars >>

\* the lines the door specification reads: every line but the keypad's
DoorLines == {l \in Lines : Branch(l) # "passcode"}

\* the lines the passcode specification reads: every line that arms no timer
PassLines == {l \in Lines : Branch(l) \in {"passcode", "finger_found", "finger_not_found"}}
               \cup {<<"Key", "5">>}

\* the door side: reader thread, timer threads, the UI's commands and exit
Next ==
  \/ \E line \in DoorLines : RxRead(line, "none")
  \/ DispatchFingerFound
  \/ DispatchFingerNotFound
  \/ DispatchDoorOpened
  \/ DispatchDoorClosing
  \/ DispatchOther
  \/ \E k \in TimerIds : TimerExpire(k)
  \/ \E k \in TimerIds : TimerWake(k)
  \/ \E k \in TimerIds : TimerFire(k)
  \/ OpenDoor
  \/ CloseDoor
  \/ SendRaw
  \/ \E s \in HoldInputs : SetHoldTime(s)
  \/ Shutdown

\* the passcode side: reader thread, the credential store and the settings
PassNext ==
  \/ \E line \in PassLines, f \in Faults : RxRead(line, f)
  \/ DispatchPasscode
  \/ DispatchFingerFound
  \/ DispatchFingerNotFound
  \/ DispatchOther
  \/ Shutdown
  \/ \E b \in BOOLEAN : SetToggle(b)
  \/ \E c \in Codes : SetMainPasscode(c)
  \/ \E c \in GuestCodes, o \in BOOLEAN : CreateGuest(c, o)
  \/ \E i \in GuestIds : ExpireGuest(i)

\* the lines the home specification reads: the door's and the keypad's keys
HomeLines == {l \in Lines : Branch(l) \in {"door_opened", "door_closing", "other"}}

\* the home tab: the reader thread, the buttons, the recognition thread
HomeNext ==
  \/ \E line \in HomeLines : RxRead(line, "none")
  \/ DispatchDoorOpened
  \/ DispatchDoorClosing
  \/ DispatchOther
  \/ OpenDoor
  \/ CloseDoor
  \/ SendRaw
  \/ ManualOpen
  \/ ManualClose
  \/ FpEnroll
  \/ ApplyCameraIndex
  \/ RecogCheck
  \/ RecogArm
  \/ RecogFire
  \/ RecogIdle

\* a full deque that refuses the new line instead of evicting the oldest
Push_DropsNewest(d, x) == IF Len(d) < MaxQueued THEN Append(d, x) ELSE d

\* deque(maxlen=...).append: a full deque discards its oldest item
Push(d, x) == IF Len(d) < MaxQueued THEN Append(d, x) ELSE Append(Tail(d), x)

\* ESPFingerprint._rx_line, the transport's on_message: queue the line, echo
\* it to the observer inside try/except
RxLine ==
  /\ rx = "dispatch"
  /\ rx' = "idle" /\ cur' = NoLine
  /\ q' = Push(q, [text |-> cur, stale |-> op.pc # "poll"])
  /\ echo' = IF user_cb = "absent" THEN echo ELSE echo + 1
  /\ UNCHANGED << linkVars, flt, nLines, ctlVars, timerVars, storeVars, tx, nApi, logc,
                  grants, att, homeVars, recogVars, fanVars, user_cb, op, lineVars, dmnVars >>

\* enroll / delete / delete_all / library_first_empty, up to _drain()
OpStart(name) ==
  /\ op.pc \in {"none", "returned", "raised"}
  /\ op.n < MaxOps
  /\ IF ~IsConnected
     THEN /\ op' = Returned([NoOp EXCEPT !.name = name, !.n = op.n + 1], FALSE, <<>>,
                             <<"Serial", "not", "connected">>, FALSE, FALSE)
          /\ q' = q
     ELSE /\ op' = [NoOp EXCEPT !.name = name, !.n = op.n + 1, !.pc = "drained"]
          /\ q' = <<>>
  /\ UNCHANGED << linkVars, rx, cur, flt, nLines, ctlVars, timerVars, storeVars, tx,
                  nApi, logc, grants, att, homeVars, recogVars, fanVars, user_cb, echo, lineVars, dmnVars >>

\* the operation sends its command and sets its deadline
OpSend ==
  /\ op.pc = "drained"
  /\ tx' = EspSend(tx, CmdOf(op.name))
  /\ op' = [op EXCEPT !.pc = "poll"]
  /\ UNCHANGED << linkVars, rx, cur, flt, nLines, ctlVars, timerVars, storeVars, nApi,
                  logc, grants, att, homeVars, recogVars, fanVars, user_cb, q, echo, lineVars, dmnVars >>

\* one turn of the polling loop that pops a line: the observer is called
\* (outside any try), then the line is tested
OpPoll ==
  /\ op.pc = "poll" /\ q # <<>>
  /\ q' = Tail(q)
  /\ echo' = IF user_cb = "absent" THEN echo ELSE echo + 1
  /\ LET o == Outcome(op.name, Head(q).text)
     IN  op' = IF user_cb = "raises"
               THEN [op EXCEPT !.pc = "raised", !.matched = o.matched,
                               !.stale = Head(q).stale]
               ELSE IF o.done
                    THEN Returned(op, o.ok, o.value, o.msg, o.matched, Head(q).stale)
                    ELSE op
  /\ UNCHANGED << linkVars, rx, cur, flt, nLines, ctlVars, timerVars, storeVars, tx,
                  nApi, logc, grants, att, homeVars, recogVars, fanVars, user_cb, lineVars, dmnVars >>

\* the deadline passes: the loop ends and the operation returns "timeout"
OpTimeout ==
  /\ op.pc = "poll"
  /\ op' = Returned(op, FALSE, <<>>, <<"timeout">>, FALSE, FALSE)
  /\ UNCHANGED << linkVars, rx, cur, flt, nLines, ctlVars, timerVars, storeVars, tx,
                  nApi, logc, grants, att, homeVars, recogVars, fanVars, user_cb, q,
                  echo, lineVars, dmnVars >>

\* ------------------------------------ RecognitionDaemon.run, step by step
\* all the state outside the recognition daemon
outsideDaemon == << linkVars, rx, cur, flt, nLines, ctlVars, timerVars, storeVars, tx,
                    logc, grants, att, homeVars, fanVars, chanVars, lineVars >>

\* get_all_settings(): face recognition on, off, or the read fails
Settings == {"on", "off", "fails"}

\* face_enabled: a failed read counts as enabled
FaceEnabled(s) == s # "off"

\* what the frame source hands over: a frame, None, or it raises
Frames == {"frame", "none", "raises"}

\* the call that raises during a tick, if any
TickFaults == {"none", "matcher", "status", "visual"}

\* hold_left <= 0
HoldElapsed(t, since) == t - since >= MatchHold

\* the cooldown test with the comparison turned around
CooldownElapsed_Inverted(t, ts, cd) == t - ts < cd

\* (now - ts) * 1000.0 >= cd
CooldownElapsed(t, ts, cd) == t - ts >= cd

\* the overlay run() hands to on_visual for a matcher result: a box with a
\* label, or None when no face region was found
Overlay(m) == IF m.box THEN "box" ELSE "none"

\* time.time() advances by one second. run() reads it at lines 120, 167 and
\* 173 and no other thread does, so an advance at another point of a tick is
\* the same as one in the sleep before or after it; the reads of lines 167
\* and 173 have only assignments between them and fall in the same second
Clock ==
  /\ now < Epoch + MaxClock
  /\ rtick = "sleep"
  /\ now' = now + 1
  /\ UNCHANGED << outsideDaemon, visual, recogVars, stop, upc, pending_name, pending_dist,
                  pending_since, last_match_ts, last_deny_ts, loc, status, armed,
                  hitlog, nm, nTicks, nApi >>

\* RecognitionDaemon.stop, called by the thread that pauses and resumes.
\* run() reads _stop in its loop test and in _sleep_rest only, so a call at
\* another point of a tick is the same as one in the sleep that follows
Stop ==
  /\ ~stop
  /\ rtick = "sleep"
  /\ upc = "idle"
  /\ nApi < MaxApi
  /\ nApi' = nApi + 1
  /\ stop' = TRUE
  /\ UNCHANGED << outsideDaemon, visual, recogVars, now, upc, pending_name, pending_dist,
                  pending_since, last_match_ts, last_deny_ts, loc, status, armed,
                  hitlog, nm, nTicks >>

\* run: the loop test passes and _paused is clear (a paused tick only sleeps)
TickBegin ==
  /\ rtick = "sleep" /\ ~stop /\ ~paused
  /\ nTicks < MaxTicks
  /\ nTicks' = nTicks + 1
  /\ rtick' = "tick"
  /\ loc' = NoLoc
  /\ UNCHANGED << outsideDaemon, visual, paused, pending, hits, now, stop, upc, pending_name,
                  pending_dist, pending_since, last_match_ts, last_deny_ts,
                  status, armed, hitlog, nApi, nm >>

\* run: the loop test finds _stop set, the loop ends; on_visual(None) and
\* on_status("Face: stopped") in one try/except
TickStop(e) ==
  /\ rtick = "sleep" /\ stop
  /\ rtick' = "stopped"
  /\ status' = IF e = "visual" THEN status ELSE "stopped"
  /\ visual' = IF e = "visual" THEN visual ELSE "none"
  /\ UNCHANGED << outsideDaemon, paused, pending, hits, now, stop, upc, pending_name,
                  pending_dist, pending_since, last_match_ts, last_deny_ts, loc,
                  armed, hitlog, nm, nTicks, nApi >>

\* the disabled branch with the pending match left as it is
DisabledClear_KeepsPending(d) == [d EXCEPT !.last_match_ts = 0, !.last_deny_ts = 0]

\* the disabled branch: the pending match and the cooldown timestamps are
\* cleared, on d = [pending_name, pending_since, last_match_ts, last_deny_ts]
DisabledClear(d) ==
  [pending_name |-> "none", pending_since |-> 0, last_match_ts |-> 0, last_deny_ts |-> 0]

\* run, from the settings to the test of _pending_name: the disabled branch,
\* the frame source, the "no frame" branch
TickFrame(s, f, e) ==
  /\ rtick = "tick"
  /\ IF ~FaceEnabled(s)
     THEN /\ LET c == DisabledClear([pending_name |-> pending_name,
                                     pending_since |-> pending_since,
                                     last_match_ts |-> last_match_ts,
                                     last_deny_ts |-> last_deny_ts])
             IN /\ pending_name' = c.pending_name
                /\ pending' = (c.pending_name # "none")
                /\ pending_since' = c.pending_since
                /\ last_match_ts' = c.last_match_ts
                /\ last_deny_ts' = c.last_deny_ts
          /\ status' = IF e = "visual" THEN status ELSE "disabled"
          /\ visual' = IF e = "visual" THEN visual ELSE "none"
          /\ loc' = [Raised(IF e = "visual" THEN e ELSE "none") EXCEPT !.enabled = FALSE]
          /\ nm' = 0
          /\ rtick' = "sleep"
     ELSE /\ UNCHANGED << pending_name, pending, pending_since, last_match_ts,
                          last_deny_ts, nm >>
          /\ IF f = "raises"
             THEN /\ rtick' = "sleep" /\ status' = "error" /\ loc' = Raised("frame")
                  /\ visual' = visual
             ELSE IF f = "none"
                  THEN /\ rtick' = "sleep"
                       /\ status' = IF e \in {"status", "visual"} THEN "error"
                                     ELSE "no frame"
                       /\ loc' = Raised(IF e = "visual" THEN e ELSE "none")
                       /\ visual' = IF e \in {"status", "visual"} THEN visual ELSE "none"
                  ELSE /\ rtick' = IF pending_name # "none" THEN "armed" ELSE "idle"
                       /\ status' = status
                       /\ loc' = loc
                       /\ visual' = visual
  /\ UNCHANGED << outsideDaemon, paused, hits, now, stop, upc, pending_dist,
                  armed, hitlog, nTicks, nApi >>

\* run with a pending match: the hold is over, or the tick only refreshes
\* the status and the overlay
TickHold(m, e) ==
  /\ rtick = "armed"
  /\ IF HoldElapsed(now, pending_since)
     THEN rtick' = "fire" /\ status' = status /\ loc' = loc /\ visual' = visual
     ELSE /\ rtick' = "sleep"
          /\ status' = IF e \in {"matcher", "visual"} THEN "error" ELSE "opening"
          /\ loc' = Raised(IF e \in {"matcher", "visual"} THEN e ELSE "none")
          /\ visual' = IF e \in {"matcher", "visual"} THEN visual ELSE Overlay(m)
  /\ UNCHANGED << outsideDaemon, paused, pending, hits, now, stop, upc, pending_name,
                  pending_dist, pending_since, last_match_ts, last_deny_ts,
                  armed, hitlog, nm, nTicks, nApi >>

\* run: on_hit(self._pending_name, self._pending_dist) inside try/except
TickFire(raises) ==
  /\ rtick = "fire"
  /\ hits <= MaxHits
  /\ hits' = hits + 1
  /\ hitlog' = Append(hitlog, [name |-> pending_name, dist |-> pending_dist,
                               n |-> armed.n, raised |-> raises])
  /\ rtick' = "clear"
  /\ UNCHANGED << outsideDaemon, visual, paused, pending, now, stop, upc, pending_name,
                  pending_dist, pending_since, last_match_ts, last_deny_ts, loc,
                  status, armed, nm, nTicks, nApi >>

\* run after on_hit: the pending match is cleared and the daemon pauses itself
TickClearPause(raises) ==
  /\ rtick = "clear"
  /\ pending_name' = "none" /\ pending' = FALSE /\ pending_since' = 0
  /\ paused' = Pause([paused |-> paused, pending |-> FALSE]).paused
  /\ visual' = IF raises THEN visual ELSE "none"
  /\ rtick' = "sleep"
  /\ UNCHANGED << outsideDaemon, hits, now, stop, upc, pending_dist, last_match_ts,
                  last_deny_ts, loc, status, armed, hitlog, nm, nTicks, nApi >>

\* run with no pending match: recognize_with_box, the overlay, then the
\* cooldown tests; a match that passes its test is armed by the next step
TickMatch(m, e) ==
  /\ rtick = "idle"
  /\ IF e \in {"matcher", "visual"}
     THEN /\ rtick' = "sleep" /\ status' = "error"
          /\ loc' = Raised(e)
          /\ UNCHANGED << last_deny_ts, nm, visual >>
     ELSE IF m.matched /\ m.name # "none"
          THEN /\ status' = status
               /\ visual' = Overlay(m)
               /\ UNCHANGED << last_deny_ts, nm >>
               /\ loc' = [NoLoc EXCEPT !.name = m.name, !.dist = m.dist, !.now = now]
               /\ IF CooldownElapsed(now, last_match_ts, MatchCd)
                  THEN /\ armed.n < MaxHits
                       /\ rtick' = "arm"
                  ELSE rtick' = "sleep"
          ELSE /\ rtick' = "sleep"
               /\ visual' = Overlay(m)
               /\ loc' = [NoLoc EXCEPT !.now = now]
               /\ IF CooldownElapsed(now, last_deny_ts, DenyCd)
                  THEN /\ last_deny_ts' = now
                       /\ status' = "no match"
                       /\ nm' = now
                  ELSE UNCHANGED << last_deny_ts, status, nm >>
  /\ UNCHANGED << outsideDaemon, paused, pending, hits, now, stop, upc, pending_name,
                  pending_dist, pending_since, last_match_ts, armed, hitlog, nTicks, nApi >>

\* run: the match is armed
TickArm ==
  /\ rtick = "arm"
  /\ last_match_ts' = loc.now
  /\ pending_name' = loc.name /\ pending' = TRUE
  /\ pending_dist' = loc.dist
  /\ pending_since' = now
  /\ status' = "opening"
  /\ armed' = [n |-> armed.n + 1, name |-> loc.name, dist |-> loc.dist,
                since |-> now, p |-> FALSE, r |-> FALSE]
  /\ loc' = NoLoc
  /\ rtick' = "sleep"
  /\ UNCHANGED << outsideDaemon, visual, paused, hits, now, stop, upc, last_deny_ts, hitlog,
                  nm, nTicks, nApi >>

\* ------------------------------ pause() and resume(), from another thread
\* pause(): _paused is set. The caller is a handler that only pauses, or
\* HomeTab._apply_camera_index, which pauses, restarts the camera and resumes
PauseBegin(caller) ==
  /\ upc = "idle"
  /\ nApi < MaxApi
  /\ nApi' = nApi + 1
  /\ upc' = caller
  /\ paused' = Pause([paused |-> paused, pending |-> pending]).paused
  /\ armed' = IF pending_name # "none" THEN [armed EXCEPT !.p = TRUE] ELSE armed
  /\ UNCHANGED << outsideDaemon, visual, pending, rtick, hits, now, stop, pending_name,
                  pending_dist, pending_since, last_match_ts, last_deny_ts, loc,
                  status, hitlog, nm, nTicks >>

\* pause(): on_visual(None) inside try/except, then _pending_name = None
PauseClear(raises) ==
  /\ upc \in {"pause", "apply"}
  /\ upc' = IF upc = "pause" THEN "pause2" ELSE "apply2"
  /\ visual' = IF raises THEN visual ELSE "none"
  /\ pending' = Pause([paused |-> paused, pending |-> pending]).pending
  /\ pending_name' = "none"
  /\ UNCHANGED << outsideDaemon, paused, rtick, hits, now, stop, pending_dist,
                  pending_since, last_match_ts, last_deny_ts, loc, status, armed,
                  hitlog, nm, nTicks, nApi >>

\* pause(): _pending_since = 0.0, and the call returns
PauseEnd ==
  /\ upc \in {"pause2", "apply2"}
  /\ upc' = IF upc = "pause2" THEN "idle" ELSE "restarted"
  /\ pending_since' = 0
  /\ UNCHANGED << outsideDaemon, visual, recogVars, now, stop, pending_name,
                  pending_dist, last_match_ts, last_deny_ts, loc, status, armed,
                  hitlog, nm, nTicks, nApi >>

\* resume(): _paused is cleared. The caller is a handler that only resumes,
\* or _apply_camera_index after its pause()
ResumeBegin ==
  /\ \/ upc = "idle" /\ nApi < MaxApi /\ nApi' = nApi + 1
     \/ upc = "restarted" /\ nApi' = nApi
  /\ upc' = "resume"
  /\ paused' = Resume([paused |-> paused, pending |-> pending]).paused
  /\ UNCHANGED << outsideDaemon, visual, pending, rtick, hits, now, stop, pending_name,
                  pending_dist, pending_since, last_match_ts, last_deny_ts, loc,
                  status, armed, hitlog, nm, nTicks >>

\* resume(): the two cooldown timestamps are reset
ResumeReset ==
  /\ upc = "resume"
  /\ upc' = "reset"
  /\ last_match_ts' = 0
  /\ last_deny_ts' = 0
  /\ nm' = 0
  /\ UNCHANGED << outsideDaemon, visual, recogVars, now, stop, pending_name, pending_dist,
                  pending_since, loc, status, armed, hitlog, nTicks, nApi >>

\* resume(): the pending match is cleared, then "Face: resumed"
ResumeEnd ==
  /\ upc = "reset"
  /\ upc' = "idle"
  /\ pending' = Resume([paused |-> paused, pending |-> pending]).pending
  /\ pending_name' = "none"
  /\ pending_since' = 0
  /\ status' = "resumed"
  /\ armed' = [armed EXCEPT !.r = armed.p]
  /\ UNCHANGED << outsideDaemon, visual, paused, rtick, hits, now, stop, pending_dist, loc,
                  hitlog, last_match_ts, last_deny_ts, nm, nTicks, nApi >>

\* the recognition daemon: its thread, the clock, and the thread that calls
\* pause(), resume() and stop()
DmnNext ==
  \/ Clock
  \/ Stop
  \/ TickBegin
  \/ \E e \in TickFaults : TickStop(e)
  \/ \E s \in Settings, f \in Frames, e \in TickFaults : TickFrame(s, f, e)
  \/ \E m \in Matches, e \in TickFaults : TickHold(m, e)
  \/ \E r \in BOOLEAN : TickFire(r)
  \/ \E r \in BOOLEAN : TickClearPause(r)
  \/ \E m \in IdleMatches, e \in TickFaults : TickMatch(m, e)
  \/ TickArm
  \/ \E c \in {"pause", "apply"} : PauseBegin(c)
  \/ \E r \in BOOLEAN : PauseClear(r)
  \/ PauseEnd
  \/ ResumeBegin
  \/ ResumeReset
  \/ ResumeEnd

\* the home tab starts the daemon; the transport plays no part here
DmnInit == Init /\ available

\* ------------------------------------ SerialService._rx_loop, byte by byte
\* the bytes the device delivers: newline, carriage return, space, a byte
\* that is no text on its own, a stretch of other text and the two halves
\* of the LED acknowledgement
Bytes == {"LF", "CR", "SP", "XFF", "Key5", "LED set suc", "cess"}

\* the bytes of the specification that has a handler which never returns
HangBytes == {"LF", "Key5"}

\* bytes(...).decode(errors="ignore") of one byte
Decode(c) == IF c = "XFF" THEN <<>> ELSE << c >>

\* str.strip()
RECURSIVE LStrip(_)
LStrip(s) == IF s # <<>> /\ Head(s) = "SP" THEN LStrip(Tail(s)) ELSE s

RECURSIVE RStrip(_)
RStrip(s) ==
  IF s # <<>> /\ s[Len(s)] = "SP" THEN RStrip(SubSeq(s, 1, Len(s) - 1)) ELSE s

Strip(s) == RStrip(LStrip(s))

\* _rx_loop with no denylist
Denylisted_Never(line) == FALSE

\* "LED set success" in line
Denylisted(line) == Contains(line, << "LED set suc", "cess" >>)

\* everything but the transport, its reader and the commands written
outsideLine == << available, flt, ctlVars, timerVars, storeVars, logc, grants, att,
                  homeVars, recogVars, fanVars, chanVars, dmnVars >>

\* the device delivers one more byte
Arrive(c) ==
  /\ nBytes < MaxBytes
  /\ nBytes' = nBytes + 1
  /\ inbuf' = Append(inbuf, c)
  /\ UNCHANGED << outsideLine, port, running, rx, cur, nLines, tx, nApi, buf, raw,
                  got, out >>

\* _rx_loop: while self._running and self.ser (a closed Serial object is
\* still an object)
RxTest ==
  /\ rx = "idle"
  /\ rx' = IF running /\ port # "none" THEN "read" ELSE "done"
  /\ UNCHANGED << outsideLine, port, running, cur, nLines, tx, nApi, lineVars >>

\* _rx_loop, one pass of the body up to the call of on_message. in_waiting
\* raises on a closed port or on a device error (err): sleep 0.2 and loop
RxStep(err) ==
  /\ rx = "read"
  /\ IF err \/ port # "open" \/ inbuf = <<>>
     THEN /\ rx' = "idle"
          /\ UNCHANGED << cur, nLines, lineVars >>
     ELSE /\ inbuf' = Tail(inbuf)
          /\ nBytes' = nBytes
          /\ IF Head(inbuf) = "LF"
             THEN /\ buf' = <<>>
                  /\ raw' = <<>>
                  /\ got' = Append(got, raw)
                  /\ IF Strip(buf) = <<>> \/ Denylisted(Strip(buf))
                     THEN rx' = "idle" /\ UNCHANGED << cur, nLines, out >>
                     ELSE /\ rx' = "dispatch"
                          /\ cur' = Strip(buf)
                          /\ nLines' = nLines + 1
                          /\ out' = Append(out, [k |-> Len(got) + 1, text |-> Strip(buf),
                                                 raised |-> FALSE])
             ELSE /\ rx' = "idle"
                  /\ raw' = Append(raw, Head(inbuf))
                  /\ buf' = IF Head(inbuf) = "CR" THEN buf ELSE buf \o Decode(Head(inbuf))
                  /\ UNCHANGED << cur, nLines, got, out >>
  /\ UNCHANGED << outsideLine, port, running, tx, nApi >>

\* _rx_loop with an except that also empties the input buffer
OnMessage_FlushesOnFault(raises) ==
  /\ rx = "dispatch"
  /\ rx' = "idle"
  /\ cur' = NoLine
  /\ out' = [out EXCEPT ![Len(out)].raised = raises]
  /\ inbuf' = IF raises THEN <<>> ELSE inbuf
  /\ UNCHANGED << outsideLine, port, running, nLines, tx, nApi, buf, raw, got,
                  nBytes >>

\* on_message(line) returns, or raises into the except of _rx_loop
OnMessage(raises) ==
  /\ rx = "dispatch"
  /\ rx' = "idle"
  /\ cur' = NoLine
  /\ out' = [out EXCEPT ![Len(out)].raised = raises]
  /\ UNCHANGED << outsideLine, port, running, nLines, tx, nApi, inbuf, buf, raw, got,
                  nBytes >>

\* on_message(line) never returns: _rx_loop calls it on the reader thread
OnMessageHangs ==
  /\ rx = "dispatch"
  /\ rx' = "stuck"
  /\ UNCHANGED << outsideLine, port, running, cur, nLines, tx, nApi, lineVars >>

\* SerialService.close
Close ==
  /\ running' = FALSE
  /\ port' = IF port = "open" THEN "closed" ELSE port
  /\ UNCHANGED << outsideLine, rx, cur, nLines, tx, nApi, lineVars >>

\* the transport: the device, the reader thread with handlers that return
\* or raise, and the thread that closes
LineNext ==
  \/ \E c \in Bytes : Arrive(c)
  \/ RxTest
  \/ \E err \in BOOLEAN : RxStep(err)
  \/ \E raises \in BOOLEAN : OnMessage(raises)
  \/ Close

LineInit == Init /\ available

LineSpec == LineInit /\ [][LineNext]_vars

\* the reader thread, whatever its handler does
Reader ==
  \/ RxTest
  \/ RxStep(FALSE)
  \/ \E raises \in BOOLEAN : OnMessage(raises)
  \/ OnMessageHangs

\* the transport with a handler that may never return, and the thread that
\* sends and closes
HangNext ==
  \/ \E c \in HangBytes : Arrive(c)
  \/ RxTest
  \/ \E err \in BOOLEAN : RxStep(err)
  \/ \E raises \in BOOLEAN : OnMessage(raises)
  \/ OnMessageHangs
  \/ Close
  \/ SendRaw

\* the reader thread is scheduled, and the device does not fail for ever
HangSpec ==
  LineInit /\ [][HangNext]_vars /\ WF_vars(Reader) /\ SF_vars(RxStep(FALSE))

\* the command channel: its reader thread and the caller of one operation
\* at a time
ChanNext ==
  \/ \E line \in ChanLines : RxRead(line, "none")
  \/ RxLine
  \/ \E name \in OpNames : OpStart(name)
  \/ OpSend
  \/ OpPoll
  \/ OpTimeout

\* an ESPFingerprint with no observer, one that returns, or one that raises
ChanInit ==
  /\ InitBase
  /\ on_event = FALSE
  /\ user_cb \in {"absent", "returns", "raises"}

\* the fan-out of _handle_rx: the reader thread stage by stage, and the UI
\* thread registering listeners (callbacks are numbered as they register)
FanNext ==
  \/ \E line \in FanLines : RxRead(line, "none")
  \/ \E r \in BOOLEAN : HandleLogic(r)
  \/ \E r \in BOOLEAN : HandlePrimary(r)
  \/ \E r \in BOOLEAN : HandleListener(r)
  \/ HandleReturn
  \/ \E cb \in ListenerIds : cb <= Len(listeners) + 1 /\ AddListener(cb)

\* a controller with or without a primary callback
FanInit ==
  /\ InitBase
  /\ on_event \in BOOLEAN
  /\ user_cb = "absent"

Spec == Init /\ [][Next]_vars

FanSpec == FanInit /\ [][FanNext]_vars

HomeSpec == Init /\ [][HomeNext]_vars

ChanSpec == ChanInit /\ [][ChanNext]_vars

DmnSpec == DmnInit /\ [][DmnNext]_vars

\* the timer threads and the reader thread are scheduled: a wait that can end
\* ends, a pending call is made, a line read is dispatched
Fairness ==
  /\ \A k \in TimerIds : WF_vars(TimerExpire(k))
  /\ \A k \in TimerIds : WF_vars(TimerWake(k))
  /\ \A k \in TimerIds : WF_vars(TimerFire(k))

FairSpec == Spec /\ Fairness

PassSpec == Init /\ [][PassNext]_vars


\* ==================================================================== claims
\* a step of the reader thread that dispatches the line cur
Dispatched == rx = "dispatch" /\ rx' = "idle"

NoneOutstanding == \A k \in TimerIds : ~Outstanding(k)

\* ------------------------------------------------------------------------ C1
\* C1: at most one auto-close timer is outstanding, and a timer that a second
\* "Inform door opened" replaced while it was outstanding never sends "close"
\* (the one "close" comes from the later-armed timer).
C1_ReplaceNotStack ==
  /\ \A j, k \in TimerIds : Outstanding(j) /\ Outstanding(k) => j = k
  /\ \A k \in TimerIds :
       timers[k].cancelBy = "rearm" /\ timers[k].cancelAt \in {"wait", "call"}
         => timers[k].sends = 0

\* the half of C1 the code keeps: never two outstanding timers
C1_AtMostOneOutstanding ==
  \A j, k \in TimerIds : Outstanding(j) /\ Outstanding(k) => j = k

\* ------------------------------------------------------------------------ C2
\* the line reaches the last branch of _process_line_for_logic
C2_InformClose(text) ==
  /\ \/ Contains(text, <<"Inform", "door", "closing">>)
     \/ Contains(text, <<"Inform", "door", "closed">>)
  /\ ~StartsWith(text, <<"Inform", "passcode">>)
  /\ ~StartsWith(text, <<"Inform", "finger", "found">>)
  /\ ~Contains(text, <<"Inform", "finger", "not", "found">>)
  /\ ~Contains(text, <<"Inform", "door", "opened">>)

\* C2 as stated: dispatching any line that contains "door closing" or "door
\* closed" leaves no timer outstanding.
C2_AnyDoorCloseCancels ==
  [][ (Dispatched /\ (\/ Contains(cur, <<"door", "closing">>)
                      \/ Contains(cur, <<"door", "closed">>)))
        => NoneOutstanding' ]_vars

\* C2 as amended: dispatching a line that contains "Inform door closing" or
\* "Inform door closed" (and is taken by no earlier branch) drops the handle
\* and leaves no timer outstanding, and a timer such a line cancelled before
\* its deadline never calls close_door and never sends "close".
C2_InformCloseCancels ==
  /\ [][ (Dispatched /\ C2_InformClose(cur)) => (timer' = 0 /\ NoneOutstanding') ]_vars
  /\ [](\A k \in TimerIds :
          timers[k].cancelBy = "line" /\ timers[k].cancelAt = "wait"
            => ~timers[k].fired /\ timers[k].sends = 0)

\* a timer cancelled by a closing line before its deadline has ended, unfired
C2_Witness ==
  \E k \in TimerIds : /\ timers[k].cancelBy = "line" /\ timers[k].cancelAt = "wait"
                      /\ timers[k].pc = "done" /\ timers[k].sends = 0

\* ------------------------------------------------------------------------ C3
\* C3: a timer cancelled before it fired (by a closing line, a re-arm or the
\* exit) sends no "close" afterwards, and no timer sends "close" twice.
C3_NoCloseAfterCancel ==
  \A k \in TimerIds :
    /\ timers[k].cancelAt \in {"wait", "call"} => timers[k].sends = 0
    /\ timers[k].sends <= 1

\* ------------------------------------------------------------------------ C4
\* the arm of timer k ended in a "close" sent by it or by a timer that
\* replaced it, or was called off by a closing line, or the port was closed
C4_Settled(k) ==
  \/ \E j \in k..MaxTimers : timers[j].fired /\ timers[j].sends = 1
  \/ \E j \in k..MaxTimers : timers[j].cancelBy = "line"
  \/ port # "open"

\* C4: once "Inform door opened" armed a timer on an open port, and no closing
\* line calls it off, a timer fires and sends "close"; no timer sends it twice.
C4_AutoCloseFiresOnce ==
  /\ [](\A k \in TimerIds : timers[k].sends <= 1)
  /\ \A k \in TimerIds : (timers[k].pc = "wait") ~> C4_Settled(k)

\* a timer nobody cancelled has fired and sent its one "close"
C4_Witness ==
  \E k \in TimerIds : /\ timers[k].fired /\ timers[k].sends = 1
                      /\ timers[k].cancelAt = "none"
                      /\ tx["close"] = 1

\* ------------------------------------------------------------------------ C5
\* C5: a one-time guest credential is matched by at most one passcode attempt.
C5_OneTimeAtMostOnce ==
  \A i \in GuestIds : guests[i].one_time => grants[i] <= 1

\* ------------------------------------------------------------------------ C6
\* the keypad line "Inform passcode <c>" or "Inform passcode: <c>"
KeypadLine(text, c) ==
  text \in { <<"Inform", "passcode", c>>, <<"Inform", "passcode", ":", c>> }

\* the toggle does not block the attempt: it reads true, or the read raises
ToggleLetsPass == passcode_enabled \/ flt = "settings"

\* C6: an attempt whose code equals the main credential (as
\* reveal_main_passcode returns it) is granted after that one store read: the
\* guest rows are not listed, none is revealed, matched or changed.
C6_MainFirst ==
  [][ \A c \in Codes :
        (Dispatched /\ KeypadLine(cur, c) /\ main = c /\ ToggleLetsPass /\ flt # "main")
          => /\ att'.result = "granted"
             /\ att'.reads = 1 /\ ~att'.enumerated /\ att'.guest = 0
             /\ grants' = grants /\ guests' = guests ]_vars

\* granted on the main credential while an active guest holds the same code
C6_Witness ==
  /\ att.result = "granted" /\ att.guest = 0 /\ ~att.enumerated
  /\ main # "" /\ att.code = <<main>>
  /\ \E i \in GuestIds : guests[i].state = "active" /\ guests[i].code = main

\* ------------------------------------------------------------------------ C7
\* C7: with the toggle read as false, an attempt records passcode/blocked,
\* reads nothing from the credential store and sends nothing.
C7_BlockedWhenDisabled ==
  [][ \A c \in Codes :
        (Dispatched /\ KeypadLine(cur, c) /\ ~passcode_enabled /\ flt # "settings")
          => /\ att'.result = "blocked"
             /\ att'.reads = 0 /\ ~att'.enumerated
             /\ tx' = tx
             /\ grants' = grants
             /\ logc' = [logc EXCEPT !["passcode_blocked"] = @ + 1] ]_vars

\* blocked although the code entered is the main credential
C7_Witness ==
  /\ att.result = "blocked" /\ att.reads = 0
  /\ ~passcode_enabled /\ main # "" /\ att.code = <<main>>
  /\ logc["passcode_blocked"] = 1 /\ tx["open passcode"] = 0

\* ------------------------------------------------------------------------ C8
\* c is the main credential or the code of an active (unexpired, unused) guest
C8_IsCredential(c) ==
  \/ main # "" /\ c = main
  \/ \E i \in GuestIds : /\ guests[i].state = "active" /\ ~guests[i].used
                         /\ guests[i].code = c

\* C8: "open passcode" is written only while a keypad line whose code is a
\* stored credential is dispatched; an attempt with no matching credential
\* records passcode/denied and writes nothing.
C8_OpenOnlyOnMatch ==
  [][ /\ tx'["open passcode"] # tx["open passcode"]
           => Dispatched /\ \E c \in Codes : KeypadLine(cur, c) /\ C8_IsCredential(c)
      /\ \A c \in Codes :
           (Dispatched /\ KeypadLine(cur, c) /\ ToggleLetsPass /\ ~C8_IsCredential(c))
             => /\ tx' = tx
                /\ logc' = [logc EXCEPT !["passcode_denied"] = @ + 1] ]_vars

\* one attempt was denied and one opened the door on a guest credential
C8_Witness ==
  /\ logc["passcode_denied"] = 1
  /\ logc["passcode_granted"] = 1 /\ att.guest # 0
  /\ tx["open passcode"] = 1

\* ------------------------------------------------------------------------ C9
C9_Passcode(l) ==
  l["passcode_granted"] + l["passcode_denied"] + l["passcode_blocked"]

C9_Fingerprint(l) == l["fingerprint_granted"] + l["fingerprint_denied"]

C9_KeypadAttempt == \E c \in Codes : KeypadLine(cur, c)

C9_FingerAttempt ==
  \/ StartsWith(cur, <<"Inform", "finger", "found">>)
  \/ cur = <<"Inform", "finger", "not", "found">>

\* C9: dispatching a keypad line with a code records exactly one passcode
\* attempt, dispatching a fingerprint line exactly one fingerprint attempt,
\* and nothing else records an attempt.
C9_ExactlyOneAttempt ==
  [][ /\ (Dispatched /\ C9_KeypadAttempt)
           => /\ C9_Passcode(logc') = C9_Passcode(logc) + 1
              /\ C9_Fingerprint(logc') = C9_Fingerprint(logc)
      /\ (Dispatched /\ C9_FingerAttempt)
           => /\ C9_Fingerprint(logc') = C9_Fingerprint(logc) + 1
              /\ C9_Passcode(logc') = C9_Passcode(logc)
      /\ ~(Dispatched /\ (C9_KeypadAttempt \/ C9_FingerAttempt)) => logc' = logc ]_vars

\* two lines were dispatched, a blocked keypad attempt and a rejected finger
C9_Witness ==
  /\ rx = "idle" /\ nLines = 2
  /\ logc["passcode_blocked"] = 1 /\ logc["fingerprint_denied"] = 1

\* ----------------------------------------------------------------------- C10
\* C10: with the toggle on, the port open and the main credential readable, a
\* keypad line carrying the main code, with or without ":", writes exactly one
\* "open passcode" and records exactly one passcode/granted.
C10_MainCodeOpens ==
  [][ \A c \in Codes :
        (Dispatched /\ KeypadLine(cur, c) /\ main = c /\ passcode_enabled
           /\ flt = "none" /\ Written)
          => /\ tx' = [tx EXCEPT !["open passcode"] = @ + 1]
             /\ logc' = [logc EXCEPT !["passcode_granted"] = @ + 1] ]_vars

\* the first attempt, on the main code, opened the door
C10_Witness ==
  /\ main # "" /\ att.code = <<main>> /\ att.result = "granted" /\ att.guest = 0
  /\ passcode_enabled /\ port = "open"
  /\ tx["open passcode"] = 1 /\ logc["passcode_granted"] = 1 /\ nLines = 1

\* ----------------------------------------------------------------------- C11
\* C11: dispatching "Inform finger found, ID:<n>" records one
\* fingerprint/granted, dispatching "Inform finger not found" one
\* fingerprint/denied; neither writes a command, and neither arms, cancels
\* or replaces the auto-close timer.
C11_FingerInformational ==
  [][ /\ (Dispatched /\ StartsWith(cur, <<"Inform", "finger", "found">>))
           => /\ logc' = [logc EXCEPT !["fingerprint_granted"] = @ + 1]
              /\ tx' = tx
              /\ UNCHANGED timerVars
      /\ (Dispatched /\ cur = <<"Inform", "finger", "not", "found">>)
           => /\ logc' = [logc EXCEPT !["fingerprint_denied"] = @ + 1]
              /\ tx' = tx
              /\ UNCHANGED timerVars ]_vars

\* a recognised finger was recorded on an open port, the timer a door line
\* armed is still outstanding, and nothing was written
C11_Witness ==
  /\ rx = "idle" /\ port = "open"
  /\ logc["fingerprint_granted"] = 1
  /\ \E k \in TimerIds : Outstanding(k) /\ timer = k
  /\ \A c \in Commands : tx[c] = 0

\* ----------------------------------------------------------------------- C12
\* the calls made for line number k, in the order they were made
C12_CallsOf(k) ==
  LET E == SelectSeq(trace, LAMBDA e : e.line = k)
  IN  [i \in 1..Len(E) |-> <<E[i].stage, E[i].cb>>]

\* the place of a call in the order _handle_rx promises
C12_Rank(e) ==
  IF e.stage = "logic" THEN 0
  ELSE IF e.stage = "primary" THEN 1
  ELSE 1 + CHOOSE i \in 1..Len(listeners) : listeners[i] = e.cb

\* the calls a dispatch has made when it stands at stage st with copy sn
C12_Expected(st, sn) ==
  (IF st >= 1 THEN << <<"logic", 0>> >> ELSE <<>>)
    \o (IF st >= 2 /\ on_event THEN << <<"primary", 0>> >> ELSE <<>>)
    \o [i \in 1..(IF st >= 2 THEN st - 2 ELSE 0) |-> <<"listener", sn[i]>>]

\* the dispatch of line number k has returned
C12_Returned(k) == k < nLines \/ (k = nLines /\ rx = "idle")

\* C12: for every line the internal logic is called first, then the primary
\* callback (if set), then the listeners in registration order, all of those
\* registered when the loop starts; every call for line k comes before every
\* call for line k+1, and a line is read only after the one before returned.
C12_FanOutOrder ==
  /\ [](\A i, j \in 1..Len(trace) :
          i < j => \/ trace[i].line < trace[j].line
                   \/ /\ trace[i].line = trace[j].line
                      /\ C12_Rank(trace[i]) < C12_Rank(trace[j]))
  /\ [](rx = "dispatch" => C12_CallsOf(nLines) = C12_Expected(stage, snap))
  /\ [](\A k \in 1..nLines :
          C12_Returned(k) =>
            \E m \in 0..Len(listeners) :
              /\ C12_CallsOf(k) = C12_Expected(m + 2, listeners)
              /\ \A e \in {trace[i] : i \in 1..Len(trace)} :
                   e.line = k /\ e.stage = "logic" => e.n <= m)
  /\ [][ /\ (stage = 1 /\ stage' = 2) => snap' = listeners
         /\ nLines' # nLines => rx = "idle" /\ stage = 0 ]_vars

\* two lines went through the logic, the primary callback and two listeners
C12_Witness ==
  /\ rx = "idle" /\ nLines = 2 /\ on_event
  /\ C12_CallsOf(1) = << <<"logic", 0>>, <<"primary", 0>>, <<"listener", 1>>, <<"listener", 2>> >>
  /\ C12_CallsOf(2) = C12_CallsOf(1)

\* ----------------------------------------------------------------------- C13
\* a later call for the same line, with the same text
C13_HasAfter(i, st, cb) ==
  \E j \in (i + 1)..Len(trace) :
    /\ trace[j].line = trace[i].line /\ trace[j].text = trace[i].text
    /\ trace[j].stage = st /\ trace[j].cb = cb

\* the listeners registered when line number k reached the logic
C13_RegisteredAt(k) ==
  LET L == {j \in 1..Len(trace) : trace[j].line = k /\ trace[j].stage = "logic"}
  IN  IF L = {} THEN 0 ELSE trace[CHOOSE j \in L : TRUE].n

\* every stage was called for line number k
C13_Full(k) ==
  /\ \E j \in 1..Len(trace) : trace[j].line = k /\ trace[j].stage = "logic"
  /\ on_event => \E j \in 1..Len(trace) : trace[j].line = k /\ trace[j].stage = "primary"
  /\ \A p \in 1..C13_RegisteredAt(k) :
       \E j \in 1..Len(trace) : /\ trace[j].line = k /\ trace[j].stage = "listener"
                                 /\ trace[j].cb = listeners[p]

\* C13: after a stage raised, every later stage is still called with the same
\* line (the primary callback after the logic, every listener registered by
\* then after both, every later listener after a listener), and every later
\* line goes through all its stages.
C13_FaultIsolated ==
  \A i \in 1..Len(trace) :
    trace[i].raised =>
      LET k == trace[i].line
          n == C13_RegisteredAt(k)
          from == IF trace[i].stage = "listener"
                  THEN 1 + CHOOSE p \in 1..Len(listeners) : listeners[p] = trace[i].cb
                  ELSE 1
      IN  /\ C12_Returned(k) =>
               /\ (trace[i].stage = "logic" /\ on_event) => C13_HasAfter(i, "primary", 0)
               /\ \A p \in from..n : C13_HasAfter(i, "listener", listeners[p])
          /\ \A k2 \in (k + 1)..nLines : C12_Returned(k2) => C13_Full(k2)

\* the first listener raised on line 1, the second still got the line, and
\* line 2 reached both
C13_Witness ==
  /\ rx = "idle" /\ nLines = 2
  /\ \E i \in 1..Len(trace) :
       /\ trace[i].line = 1 /\ trace[i].stage = "listener" /\ trace[i].cb = 1
       /\ trace[i].raised
       /\ C13_HasAfter(i, "listener", 2)
  /\ \E j \in 1..Len(trace) :
       trace[j].line = 2 /\ trace[j].stage = "listener" /\ trace[j].cb = 2

\* ----------------------------------------------------------------------- C14
\* the state the table of 4.2 gives a line, "none" for a line of no pattern
C14_Table(text) ==
  IF Contains(text, <<"door", "opening">>) THEN "opening"
  ELSE IF Contains(text, <<"door", "opened">>) THEN "open_hold"
  ELSE IF Contains(text, <<"door", "closing">>) THEN "closing"
  ELSE IF Contains(text, <<"door", "closed">>) THEN "closed"
  ELSE "none"

\* the same table on the lines as the device words them
C14_InformTable(text) ==
  IF Contains(text, <<"Inform", "door", "opening">>) THEN "opening"
  ELSE IF Contains(text, <<"Inform", "door", "opened">>) THEN "open_hold"
  ELSE IF Contains(text, <<"Inform", "door", "closing">>) THEN "closing"
  ELSE IF Contains(text, <<"Inform", "door", "closed">>) THEN "closed"
  ELSE "none"

C15_Writes(cmd) == tx'[cmd] = tx[cmd] + 1

C16_PausedWhileOpen ==
  [][ /\ cycle' => paused' /\ ~pending'
      /\ (cycle /\ cycle') => hits' = hits
      /\ (Dispatched /\ Contains(cur, <<"Inform", "door", "closed">>)) => ~paused' ]_vars

\* what the code keeps of C16: the "Inform door opening" line pauses the
\* recognition and drops the pending match, "Inform door closed" resumes it
C16_LinePausesAndResumes ==
  [][ /\ (Dispatched /\ Contains(cur, <<"Inform", "door", "opening">>))
           => paused' /\ ~pending'
      /\ (Dispatched /\ HomeBranch(cur) = "closed") => ~paused' /\ ~pending' ]_vars

\* ----------------------------------------------------------------------- C17
\* C17: with no serial device opened the channel is not connected, nothing is
\* ever written, and each of enroll, delete, delete_all and
\* library_first_empty returns at once the failure "Serial not connected",
\* with no value, without draining, sending or polling.
C17_NotConnected == <<"Serial", "not", "connected">>

C17_Disconnected ==
  ~available =>
    /\ ~IsConnected
    /\ \A c \in Commands : tx[c] = 0
    /\ op.pc \in {"none", "returned"}
    /\ op.pc = "returned" =>
         ~op.ok /\ op.value = <<>> /\ op.msg = C17_NotConnected /\ ~op.matched

C17_Witness ==
  /\ ~available
  /\ op.pc = "returned" /\ op.name = "library"
  /\ op.msg = C17_NotConnected

\* ----------------------------------------------------------------------- C18
\* C18: the line that satisfies an operation's success or failure predicate
\* was never queued before the operation sent its command.
C18_NoStaleMatch == (op.pc = "returned" /\ op.matched) => ~op.stale

\* what the code keeps of C18: an operation on a connected transport starts
\* by emptying the queue, so no line queued before _drain() is ever tested
C18_DrainEmpties ==
  [][ (op.pc # "drained" /\ op'.pc = "drained") => q' = <<>> ]_vars

\* ----------------------------------------------------------------------- C19
\* C19: on a connected transport an operation that ended without a line
\* matching its success or failure predicate has returned ok = false, no
\* value and the message "timeout".
C19_TimedOut ==
  /\ op.pc = "returned"
  /\ ~op.ok /\ op.value = <<>> /\ op.msg = <<"timeout">>

C19_TimeoutResult ==
  (IsConnected /\ op.pc \in {"returned", "raised"} /\ ~op.matched) => C19_TimedOut

\* what the code keeps of C19: the same, for an observer that does not raise
C19_TimeoutUnlessRaises == user_cb # "raises" => C19_TimeoutResult

\* ----------------------------------------------------------------------- C20
\* C20: each line an operation pops is forwarded to the observer when there
\* is one, and the operation goes on or returns as it does with no observer,
\* whether the observer returns or raises.
C20_Popped == op.pc = "poll" /\ q # <<>> /\ q' = Tail(q)

C20_AsWithoutObserver ==
  LET o == Outcome(op.name, Head(q).text)
  IN  op' = IF o.done
            THEN Returned(op, o.ok, o.value, o.msg, o.matched, Head(q).stale)
            ELSE op

C20_ObserverNeutral ==
  [][ C20_Popped => /\ user_cb # "absent" => echo' = echo + 1
                    /\ C20_AsWithoutObserver ]_vars

\* what the code keeps of C20: each popped line is forwarded, and an observer
\* that returns does not alter the outcome
C20_ForwardedAndNeutralIfReturns ==
  [][ C20_Popped => /\ user_cb # "absent" => echo' = echo + 1
                    /\ user_cb # "raises" => C20_AsWithoutObserver ]_vars

\* ----------------------------------------------------------------------- C21
\* C21: once pause() was called on a pending match and a resume() returned
\* after it, on_hit is not called for that match: no hit fires while the last
\* match armed is one that was paused and resumed.
C21_NoFireAfterResume == [][ hits' = hits + 1 => ~armed.r ]_vars

\* what the code keeps of C21: after that resume() no match is pending until
\* a new one is armed, so a tick that tests _pending_name after the resume()
\* fires nothing
C21_ClearedAfterResume == armed.r => pending_name = "none"

\* ----------------------------------------------------------------------- C22
\* C22: on_hit is called for a pending match only once its hold has elapsed
\* since it was armed, with the armed name and distance, and once per match;
\* whether on_hit raises or not, the next step of the thread clears the
\* pending match and pauses the daemon.
C22_Fired == hits' = hits + 1

C22_HitOfArmed ==
  /\ now - armed.since >= MatchHold
  /\ hitlog'[Len(hitlog')].name = armed.name
  /\ hitlog'[Len(hitlog')].dist = armed.dist
  /\ \A i \in 1..Len(hitlog) : hitlog[i].n # armed.n

C22_ThenPaused == (rtick = "clear" /\ rtick' # "clear") => (pending_name' = "none" /\ paused')

C22_FiresOnceThenPauses ==
  [][ (C22_Fired => C22_HitOfArmed) /\ C22_ThenPaused ]_vars

\* what the code keeps of C22: the same for every hit that finds the match
\* and its arming time untouched by pause() when on_hit is called
C22_FiresArmedWhilePending ==
  [][ ((C22_Fired /\ pending_name # "none" /\ pending_since # 0) => C22_HitOfArmed)
      /\ C22_ThenPaused ]_vars

\* ----------------------------------------------------------------------- C28
\* C28: a tick that finds a match pending before its hold has elapsed leaves
\* the pending name, distance and arming time as they are, whatever
\* recognize_with_box returns on it, and every hit carries the name and the
\* distance of the match that was armed.
C28_HoldTick == rtick = "armed" /\ rtick' = "sleep"

C28_PendingKept ==
  /\ pending_name' = pending_name
  /\ pending_dist' = pending_dist
  /\ pending_since' = pending_since

C28_HitCarriesArmed ==
  /\ hitlog'[Len(hitlog')].name = armed.name
  /\ hitlog'[Len(hitlog')].dist = armed.dist

C28_NoRedecide ==
  [][ (C28_HoldTick => C28_PendingKept) /\ (hits' = hits + 1 => C28_HitCarriesArmed) ]_vars

\* what the code keeps of C28: the hold branch assigns none of the three fields
C28_HoldKeepsPending == [][ C28_HoldTick => C28_PendingKept ]_vars

\* ----------------------------------------------------------------------- C29
\* C29: a tick with no pending match whose matcher returns a match arms it,
\* with the arming time now, only if the match cooldown has elapsed since
\* _last_match_ts; inside the cooldown it leaves no pending match; resume()
\* resets both cooldown timestamps, and the first matched tick after resume()
\* has returned arms.
C29_MatchedTick == rtick = "idle" /\ rtick' # "idle" /\ loc'.name # "none"

C29_Decision ==
  /\ (C29_MatchedTick /\ now - last_match_ts >= MatchCd) => rtick' = "arm"
  /\ (C29_MatchedTick /\ now - last_match_ts < MatchCd) =>
       (rtick' = "sleep" /\ pending_name' = "none")
  /\ (rtick = "idle" /\ rtick' = "arm") => C29_MatchedTick

C29_Armed ==
  (rtick = "arm" /\ rtick' # "arm") =>
    (pending_name' = loc.name /\ pending_dist' = loc.dist /\ pending_since' = now)

C29_ResumeResets ==
  (upc = "resume" /\ upc' # "resume") => (last_match_ts' = 0 /\ last_deny_ts' = 0)

C29_AfterResume == upc = "idle" /\ status = "resumed"

C29_ArmsByCooldown ==
  [][ /\ C29_Decision /\ C29_Armed /\ C29_ResumeResets
      /\ (C29_AfterResume /\ C29_MatchedTick) => rtick' = "arm" ]_vars

\* what the code keeps of C29: the decision, the arming and the reset
C29_ArmsOnlyAfterCooldown == [][ C29_Decision /\ C29_Armed /\ C29_ResumeResets ]_vars

C29_Witness ==
  /\ rtick = "sleep" /\ loc.name # "none" /\ pending_name = "none"
  /\ loc.now - last_match_ts < MatchCd

\* ----------------------------------------------------------------------- C30
\* C30: "Face: no match" is emitted by a non-matching tick exactly when the
\* deny cooldown has elapsed since _last_deny_ts; between one emission and
\* the next at least the deny cooldown passes unless resume() or a disabled
\* tick reset the timestamp in between (nm is the time of the last emission,
\* 0 after such a reset); a non-matching tick inside the cooldown emits
\* nothing.
C30_NonMatchTick ==
  rtick = "idle" /\ rtick' = "sleep" /\ loc'.name = "none" /\ loc'.now # 0

C30_Emission == nm' # nm /\ nm' # 0

C30_NoMatchRateLimited ==
  [][ /\ C30_Emission => (status' = "no match" /\ (nm = 0 \/ now - nm >= DenyCd))
      /\ (C30_NonMatchTick /\ now - last_deny_ts >= DenyCd) =>
           (status' = "no match" /\ nm' = now /\ last_deny_ts' = now)
      /\ (C30_NonMatchTick /\ now - last_deny_ts < DenyCd) =>
           UNCHANGED << status, nm, last_deny_ts >> ]_vars

C30_Witness ==
  /\ rtick = "sleep" /\ loc.name = "none"
  /\ nm # 0 /\ loc.now > nm /\ loc.now - nm < DenyCd

\* ----------------------------------------------------------------------- C26
\* C26: when the frame source, the matcher or the overlay callback raises in
\* a tick, "Face: error" is the status reported by that tick, the tick ends
\* in the sleep of the loop, and the loop ends only once stop() was called.
C26_Raises == loc.fault = "none" /\ loc'.fault # "none"

C26_LoopGoesOn == (rtick' = "stopped" => stop) /\ (C26_Raises => rtick' = "sleep")

C26_FailureReported ==
  [][ (C26_Raises => status' = "error") /\ C26_LoopGoesOn ]_vars

\* what the code keeps of C26: a failure of the frame source or of the
\* matcher is reported, and no failure ends the loop
C26_FailureSurvived ==
  [][ ((C26_Raises /\ loc'.fault \in {"frame", "matcher"}) => status' = "error")
      /\ C26_LoopGoesOn ]_vars

\* ----------------------------------------------------------------------- C23
\* C23: every line handed to on_message is non-empty, begins and ends with
\* no blank, holds no carriage return and no newline and does not contain
\* "LED set success"; and of the complete lines read, exactly those whose
\* stripped text is non-empty and not denylisted were handed over, each once
\* and as that text.
C23_Chunk(c) == c \notin {"CR", "XFF"}

C23_Text(r) == Strip(SelectSeq(r, C23_Chunk))

C23_Clean(t) ==
  /\ t # <<>>
  /\ t[1] # "SP" /\ t[Len(t)] # "SP"
  /\ \A i \in 1..Len(t) : t[i] \notin {"CR", "LF", "XFF"}
  /\ \A i \in 1..(Len(t) - 1) : ~(t[i] = "LED set suc" /\ t[i + 1] = "cess")

C23_Calls(k) == {i \in 1..Len(out) : out[i].k = k}

C23_OnlyCleanLines ==
  /\ \A i \in 1..Len(out) : C23_Clean(out[i].text)
  /\ \A k \in 1..Len(got) :
       IF C23_Clean(C23_Text(got[k]))
       THEN Cardinality(C23_Calls(k)) = 1
            /\ \A i \in C23_Calls(k) : out[i].text = C23_Text(got[k])
       ELSE C23_Calls(k) = {}

C23_Witness ==
  /\ \E k \in 1..Len(got) :
       Contains(got[k], << "CR" >>) /\ C23_Calls(k) # {}
  /\ \E k \in 1..Len(got) : C23_Calls(k) = {}

\* ----------------------------------------------------------------------- C24
\* C24: on_message is called in the order in which the newlines of the lines
\* were read, a call that raised is followed by the calls for the later
\* lines, and no byte the device delivered is lost: each is in a line read,
\* in the line being read or still waiting.
RECURSIVE C24_BytesOf(_)
C24_BytesOf(ls) == IF ls = <<>> THEN 0 ELSE Len(Head(ls)) + 1 + C24_BytesOf(Tail(ls))

C24_InArrivalOrder ==
  /\ \A i, j \in 1..Len(out) : i < j => out[i].k < out[j].k
  /\ \A k \in 1..Len(got) : C23_Clean(C23_Text(got[k])) => C23_Calls(k) # {}
  /\ nBytes = C24_BytesOf(got) + Len(raw) + Len(inbuf)

C24_Witness ==
  /\ Len(out) >= 2
  /\ out[1].raised /\ out[1].k < out[2].k

\* ----------------------------------------------------------------------- C25
\* C25: a handler that never returns does not block delivery: while the
\* transport is running, the bytes that wait in the device are eventually
\* all read.
C25_Waiting == inbuf # <<>> /\ running

C25_DeliveryGoesOn == C25_Waiting ~> (inbuf = <<>> \/ ~running)

\* what the code keeps of C25: the bytes are read unless the reader thread
\* is inside a handler that never returns
C25_DeliveryUnlessStuck == C25_Waiting ~> (inbuf = <<>> \/ ~running \/ rx = "stuck")

\* ----------------------------------------------------------------------- C27
\* C27: close() clears _running and closes the port; once closed the
\* transport stays closed whatever is called, a second close() included;
\* send() on a closed port writes nothing; the reader loop ends, and once it
\* has ended no line is dispatched.
C27_Closed == ~running /\ port # "open"

C27_Safety ==
  /\ (running /\ ~running') => C27_Closed'
  /\ C27_Closed => (C27_Closed' /\ port' = port /\ tx' = tx)
  /\ rx' = "done" => ~running'
  /\ rx = "done" => (rx' = "done" /\ out' = out)

C27_CloseEndsReader == [][C27_Safety]_vars /\ (C27_Closed ~> rx = "done")

\* what the code keeps of C27: all of it but the end of a reader thread that
\* is inside a handler that never returns
C27_CloseEndsReaderUnlessStuck ==
  [][C27_Safety]_vars /\ (C27_Closed ~> rx \in {"done", "stuck"})

\* ----------------------------------------------------------------------- C31
\* C31: a tick that finds face recognition disabled leaves no pending match
\* and both cooldown timestamps at 0, publishes no overlay, runs no match,
\* fires no hit and leaves _paused as it is; a tick that follows it with the
\* setting enabled and a frame runs the matcher, with no resume() in between.
C31_DisabledTick == rtick = "tick" /\ ~loc'.enabled

C31_Cleared ==
  /\ pending_name' = "none" /\ pending_since' = 0
  /\ last_match_ts' = 0 /\ last_deny_ts' = 0
  /\ loc'.fault = "none" => visual' = "none"
  /\ visual' = "box" => visual = "box"
  /\ loc'.name = "none" /\ loc'.now = 0
  /\ hits' = hits /\ paused' = paused
  /\ rtick' = "sleep"

C31_AfterDisabled ==
  rtick = "tick" /\ status = "disabled" /\ rtick' \notin {"tick", "sleep"}

C31_DisabledClears ==
  [][ (C31_DisabledTick => C31_Cleared) /\ (C31_AfterDisabled => rtick' = "idle") ]_vars

C31_Witness ==
  /\ rtick = "idle" /\ status = "disabled" /\ nApi = 0
  /\ ~paused /\ pending_name = "none"

\* ----------------------------------------------------------------------- C32
\* C32: whatever the daemon is doing, when pause() returns _paused is set,
\* there is no pending match, and the overlay was cleared unless on_visual
\* raised, which pause() swallows.
C32_Returns == upc \in {"pause2", "apply2"} /\ upc' \notin {"pause2", "apply2"}

C32_ClearsOverlay ==
  (upc \in {"pause", "apply"} /\ upc' \in {"pause2", "apply2"}) =>
    (visual' = "none" \/ visual' = visual)

C32_PauseLeavesPaused ==
  [][ /\ C32_Returns => (paused' /\ pending_name' = "none" /\ pending_since' = 0)
      /\ C32_ClearsOverlay ]_vars

\* what the code keeps of C32: the flag, the arming time and the overlay
C32_PauseSetsFlag ==
  [][ (C32_Returns => (paused' /\ pending_since' = 0)) /\ C32_ClearsOverlay ]_vars

\* ----------------------------------------------------------------------- C39
\* C39: while _paused is set and no pause() or resume() call is running,
\* that is from the return of pause() to the next resume(), on_hit is not
\* called and there is no pending match.
C39_Paused == paused /\ upc \in {"idle", "restarted"}

C39_QuietWhilePaused ==
  [][ /\ C39_Paused => (hits' = hits /\ pending_name = "none")
      /\ C39_Paused' => pending_name' = "none" ]_vars

\* what the code keeps of C39: no tick begins while _paused is set
C39_NoTickWhilePaused == [][ paused => ~(rtick = "sleep" /\ rtick' = "tick") ]_vars

\* ----------------------------------------------------------------------- C33
\* the daemon thread with the scheduler's guarantee that a runnable thread
\* runs: the loop test of run() is reached again after every sleep
DmnFairSpec == DmnSpec /\ WF_vars(\E e \in TickFaults : TickStop(e))

C33_LoopEnds == rtick # "stopped" /\ rtick' = "stopped"

\* C33: once stop() was called no tick begins, and the step that ends the
\* loop emits the status 'stopped', from Paused, Idle and Armed alike.
C33_StopEndsLoop ==
  [][ /\ stop => ~(rtick # "tick" /\ rtick' = "tick")
      /\ C33_LoopEnds => (stop /\ status' = "stopped") ]_vars

\* what the code keeps of C33: no tick begins after stop(), the loop ends,
\* and 'stopped' is emitted unless on_visual(None) raised before it
C33_StopEndsLoopQuietly ==
  [][ /\ stop => ~(rtick # "tick" /\ rtick' = "tick")
      /\ C33_LoopEnds => (stop /\ (status' = "stopped" \/ (status' = status /\ visual' = visual))) ]_vars

C33_Terminates == stop ~> (rtick = "stopped")

\* ----------------------------------------------------------------------- C34
C34_Queued == rx = "dispatch" /\ rx' = "idle"

C34_Kept == IF Len(q) < MaxQueued THEN Len(q) + 1 ELSE MaxQueued

C40_AtMostOnce == echo <= nLines

\* what the code keeps of C40: a line reaches the observer once when it is
\* queued and once more when an operation pops it, never a third time
C40_AtMostTwice == echo <= 2 * nLines

\* ----------------------------------------------------------------------- C35
\* a keypad attempt with code c gets past the toggle and a call it makes on
\* the credential store raises: reveal_main_passcode, or, once the main
\* credential did not match, list_active_guest_codes or reveal_guest_passcode
C35_StoreRaises(c) ==
  /\ Dispatched /\ KeypadLine(cur, c) /\ ToggleLetsPass
  /\ \/ flt = "main"
     \/ flt = "list" /\ ~(main # "" /\ c = main)
     \/ flt = "guest" /\ ~(main # "" /\ c = main) /\ ListActiveGuestCodes # <<>>

C35_Denied ==
  /\ tx' = tx
  /\ logc' = [logc EXCEPT !["passcode_denied"] = @ + 1]
  /\ att'.result = "denied"

\* C35: a keypad attempt during which the credential store raises ends as a
\* denied attempt: nothing is written to the port, one passcode/denied is
\* recorded and the dispatch of the line returns.
C35_StoreFaultDenies ==
  [][ \A c \in Codes : C35_StoreRaises(c) => C35_Denied ]_vars

\* what the code keeps of C35: the dispatch returns with one passcode attempt
\* recorded, denied unless reveal_main_passcode was the call that raised and
\* the code is that of an active guest credential
C35_StoreFaultDeniesButGuest ==
  [][ \A c \in Codes : C35_StoreRaises(c) =>
        \/ C35_Denied
        \/ /\ flt = "main" /\ att'.result = "granted" /\ att'.guest # 0
           /\ guests[att'.guest].code = c /\ guests[att'.guest].state = "active"
           /\ logc' = [logc EXCEPT !["passcode_granted"] = @ + 1] ]_vars

\* ----------------------------------------------------------------------- C36
\* the door state the last door line gave is not OpenHold
C36_NotOpenHold == door_state \in {"closed", "opening", "closing"}

C36_TimerSends(ts) == [k \in TimerIds |-> ts[k].sends]

\* C36: while the door state is Closed, Opening or Closing no auto-close
\* timer is outstanding, and no timer writes "close".
C36_TimerOnlyInOpenHold ==
  [][ C36_NotOpenHold => /\ NoneOutstanding
                         /\ C36_TimerSends(timers') = C36_TimerSends(timers) ]_vars

\* what the code keeps of C36: once a line said closing or closed the handle
\* is cleared and no timer is outstanding until the next "Inform door opened"
C36_NoneArmedOnceClosing ==
  door_state \in {"closed", "closing"} => (timer = 0 /\ NoneOutstanding)

\* ----------------------------------------------------------------------- C37
C37_OpenedAtZero == Dispatched /\ Branch(cur) = "door_opened" /\ hold_time_sec = 0

\* C37: once "Inform door opened" was processed with hold_time 0 no
\* auto-close timer is outstanding, whatever was armed before.
C37_ZeroHoldLeavesNoTimer == [][ C37_OpenedAtZero => NoneOutstanding' ]_vars

\* what the code keeps of C37: with hold_time 0 the line arms no timer, and
\* touches none
C37_ZeroHoldArmsNone ==
  [][ C37_OpenedAtZero => (timer' = timer /\ timers' = timers /\ nTimers' = nTimers) ]_vars

\* ----------------------------------------------------------------------- C38
\* shutdown() has returned: it is the one call that closes the port
C38_ShutDown == port = "closed"

\* C38: after shutdown() returned no auto-close timer is outstanding and no
\* timer writes "close".
C38_QuietAfterShutdown ==
  [][ /\ C38_ShutDown => /\ NoneOutstanding
                         /\ C36_TimerSends(timers') = C36_TimerSends(timers)
      /\ C38_ShutDown' => NoneOutstanding' ]_vars

\* what the code keeps of C38: shutdown() cancels the timer the handle names,
\* and nothing is written to the closed port
C38_ShutdownCancelsAndSilences ==
  [][ /\ (port = "open" /\ port' = "closed") => NoneOutstanding'
      /\ C38_ShutDown => (tx' = tx /\ C36_TimerSends(timers') = C36_TimerSends(timers)) ]_vars

=============================================================================
